---- MODULE Spec2Model ----
(***************************************************************************)
(* A model of socket.io-rs: the packet codec (src/src/packet.rs), the      *)
(* outbound attachment extraction (src/src/data.rs), the per-connection    *)
(* Socket (src/src/socket.rs) and the Server registry (src/src/server.rs). *)
(*                                                                         *)
(* Bytes are integers 0..255, byte strings are sequences of them.  JSON    *)
(* values (serde_json::Value) are tagged records.                          *)
(***************************************************************************)
EXTENDS Integers, Sequences, FiniteSets, TLC

(***************************************************************************)
(* Bytes                                                                   *)
(***************************************************************************)

\* The byte (ASCII code) of a one-character string.
B(ch) ==
    CASE ch = " " -> 32 [] ch = "\"" -> 34 [] ch = "(" -> 40 [] ch = ")" -> 41
      [] ch = "," -> 44 [] ch = "-" -> 45 [] ch = "/" -> 47 [] ch = "0" -> 48
      [] ch = "1" -> 49 [] ch = "2" -> 50 [] ch = "3" -> 51 [] ch = "4" -> 52
      [] ch = "5" -> 53 [] ch = "6" -> 54 [] ch = "7" -> 55 [] ch = "8" -> 56
      [] ch = "9" -> 57 [] ch = ":" -> 58 [] ch = "A" -> 65 [] ch = "B" -> 66
      [] ch = "D" -> 68 [] ch = "E" -> 69 [] ch = "H" -> 72 [] ch = "I" -> 73
      [] ch = "J" -> 74 [] ch = "M" -> 77 [] ch = "N" -> 78 [] ch = "O" -> 79
      [] ch = "P" -> 80 [] ch = "S" -> 83 [] ch = "U" -> 85 [] ch = "[" -> 91
      [] ch = "]" -> 93 [] ch = "_" -> 95 [] ch = "a" -> 97 [] ch = "b" -> 98
      [] ch = "c" -> 99 [] ch = "d" -> 100 [] ch = "e" -> 101 [] ch = "f" -> 102
      [] ch = "g" -> 103 [] ch = "h" -> 104 [] ch = "i" -> 105 [] ch = "j" -> 106
      [] ch = "k" -> 107 [] ch = "l" -> 108 [] ch = "m" -> 109 [] ch = "n" -> 110
      [] ch = "o" -> 111 [] ch = "p" -> 112 [] ch = "q" -> 113 [] ch = "r" -> 114
      [] ch = "s" -> 115 [] ch = "t" -> 116 [] ch = "u" -> 117 [] ch = "v" -> 118
      [] ch = "w" -> 119 [] ch = "x" -> 120 [] ch = "y" -> 121 [] ch = "z" -> 122
      [] ch = "{" -> 123 [] ch = "}" -> 125

\* The byte string of a sequence of one-character strings.
Bytes(chs) == [i \in DOMAIN chs |-> B(chs[i])]

\* s from position i (1-based) to its end.
From(s, i) == SubSeq(s, i, Len(s))

\* char::to_digit(10): the digit's value, or -1 for None.
to_digit(c) == IF c >= 48 /\ c <= 57 THEN c - 48 ELSE -1

\* usize::to_string: the decimal digits of n.
RECURSIVE usize_to_string(_)
usize_to_string(n) ==
    IF n < 10 THEN <<48 + n>> ELSE usize_to_string(n \div 10) \o <<48 + (n % 10)>>

\* String::from_utf8: whether the bytes are well-formed UTF-8 (one- to
\* four-byte sequences by their lead byte and continuation bytes).
RECURSIVE Utf8Valid(_, _)
Utf8Valid(b, i) ==
    LET cont(j) == j <= Len(b) /\ b[j] >= 128 /\ b[j] <= 191 IN
    IF i > Len(b) THEN TRUE
    ELSE IF b[i] < 128 THEN Utf8Valid(b, i + 1)
    ELSE IF b[i] >= 194 /\ b[i] <= 223 THEN cont(i + 1) /\ Utf8Valid(b, i + 2)
    ELSE IF b[i] >= 224 /\ b[i] <= 239
         THEN cont(i + 1) /\ cont(i + 2) /\ Utf8Valid(b, i + 3)
    ELSE IF b[i] >= 240 /\ b[i] <= 244
         THEN cont(i + 1) /\ cont(i + 2) /\ cont(i + 3) /\ Utf8Valid(b, i + 4)
    ELSE FALSE

(***************************************************************************)
(* Option and serde_json::Value                                            *)
(***************************************************************************)

None == [some |-> FALSE]
Some(x) == [some |-> TRUE, val |-> x]

JNull == [t |-> "null"]
JBool(b) == [t |-> "bool", b |-> b]
JNum(n) == [t |-> "num", n |-> n]
JStr(s) == [t |-> "str", s |-> s]
JArr(a) == [t |-> "arr", a |-> a]
\* An object is the sequence of its <<key, value>> members in key order
\* (serde_json's Map is ordered by key).
JObj(o) == [t |-> "obj", o |-> o]

\* Value::is_array
is_array(v) == v.t = "arr"

\* serde_json::ser::to_string: compact JSON text of a value.
RECURSIVE to_string(_), JoinValues(_, _), JoinMembers(_, _)
to_string(v) ==
    CASE v.t = "null" -> Bytes(<<"n", "u", "l", "l">>)
      [] v.t = "bool" -> IF v.b THEN Bytes(<<"t", "r", "u", "e">>)
                                ELSE Bytes(<<"f", "a", "l", "s", "e">>)
      [] v.t = "num" -> usize_to_string(v.n)
      [] v.t = "str" -> <<B("\"")>> \o v.s \o <<B("\"")>>
      [] v.t = "arr" -> <<B("[")>> \o JoinValues(v.a, 1) \o <<B("]")>>
      [] v.t = "obj" -> <<B("{")>> \o JoinMembers(v.o, 1) \o <<B("}")>>
JoinValues(a, i) ==
    IF i > Len(a) THEN <<>>
    ELSE (IF i > 1 THEN <<B(",")>> ELSE <<>>) \o to_string(a[i]) \o JoinValues(a, i + 1)
JoinMembers(o, i) ==
    IF i > Len(o) THEN <<>>
    ELSE (IF i > 1 THEN <<B(",")>> ELSE <<>>)
         \o <<B("\"")>> \o o[i][1] \o <<B("\"")>> \o <<B(":")>> \o to_string(o[i][2])
         \o JoinMembers(o, i + 1)

(***************************************************************************)
(* serde_json::de::from_str, for JSON text made of null, true, false,      *)
(* unsigned integers, strings without escapes, arrays and objects, with    *)
(* blanks between tokens.  A parse step returns [ok, val, next]: the value *)
(* and the position after it.                                              *)
(***************************************************************************)

ParseFail == [ok |-> FALSE]
ParseOk(v, n) == [ok |-> TRUE, val |-> v, next |-> n]

RECURSIVE SkipWs(_, _)
SkipWs(b, i) == IF i <= Len(b) /\ b[i] = 32 THEN SkipWs(b, i + 1) ELSE i

RECURSIVE ParseDigits(_, _, _)
ParseDigits(b, i, acc) ==
    IF i <= Len(b) /\ to_digit(b[i]) >= 0
    THEN ParseDigits(b, i + 1, 10 * acc + to_digit(b[i]))
    ELSE ParseOk(JNum(acc), i)

\* The position of the closing quote of a string whose body starts at i, or 0.
RECURSIVE StringEnd(_, _)
StringEnd(b, i) ==
    IF i > Len(b) THEN 0
    ELSE IF b[i] = 34 THEN i
    ELSE StringEnd(b, i + 1)

Literal(b, i, chs) ==
    i + Len(chs) - 1 <= Len(b) /\ SubSeq(b, i, i + Len(chs) - 1) = Bytes(chs)

\* Members of an object in key order, a later duplicate key replacing an
\* earlier one (BTreeMap::insert).
RECURSIVE InsertMember(_, _, _)
InsertMember(o, m, i) ==
    IF i > Len(o) THEN Append(o, m)
    ELSE IF o[i][1] = m[1] THEN [o EXCEPT ![i] = m]
    ELSE LET a == o[i][1]
             k == m[1]
             \* first differing position decides; a proper prefix sorts first
             Less(x, y) ==
                 \E j \in 1..(Len(x) + 1) :
                     /\ \A h \in 1..(j - 1) : h <= Len(y) /\ x[h] = y[h]
                     /\ \/ j = Len(x) + 1 /\ Len(y) >= j
                        \/ j <= Len(x) /\ j <= Len(y) /\ x[j] < y[j]
         IN IF Less(k, a) THEN SubSeq(o, 1, i - 1) \o <<m>> \o From(o, i)
            ELSE InsertMember(o, m, i + 1)

RECURSIVE ParseValue(_, _), ParseElems(_, _, _), ParseMembers(_, _, _)
ParseValue(b, i0) ==
    LET i == SkipWs(b, i0) IN
    IF i > Len(b) THEN ParseFail
    ELSE IF b[i] = 91 THEN
        LET j == SkipWs(b, i + 1) IN
        IF j <= Len(b) /\ b[j] = 93 THEN ParseOk(JArr(<<>>), j + 1)
        ELSE ParseElems(b, i + 1, <<>>)
    ELSE IF b[i] = 123 THEN
        LET j == SkipWs(b, i + 1) IN
        IF j <= Len(b) /\ b[j] = 125 THEN ParseOk(JObj(<<>>), j + 1)
        ELSE ParseMembers(b, i + 1, <<>>)
    ELSE IF b[i] = 34 THEN
        LET e == StringEnd(b, i + 1) IN
        IF e = 0 THEN ParseFail ELSE ParseOk(JStr(SubSeq(b, i + 1, e - 1)), e + 1)
    ELSE IF b[i] = 48 THEN
        \* a leading zero is the whole number
        IF i + 1 <= Len(b) /\ to_digit(b[i + 1]) >= 0 THEN ParseFail
        ELSE ParseOk(JNum(0), i + 1)
    ELSE IF to_digit(b[i]) >= 0 THEN ParseDigits(b, i, 0)
    ELSE IF Literal(b, i, <<"t", "r", "u", "e">>) THEN ParseOk(JBool(TRUE), i + 4)
    ELSE IF Literal(b, i, <<"f", "a", "l", "s", "e">>) THEN ParseOk(JBool(FALSE), i + 5)
    ELSE IF Literal(b, i, <<"n", "u", "l", "l">>) THEN ParseOk(JNull, i + 4)
    ELSE ParseFail
ParseElems(b, i, acc) ==
    LET r == ParseValue(b, i) IN
    IF ~r.ok THEN ParseFail
    ELSE LET j == SkipWs(b, r.next) IN
         IF j > Len(b) THEN ParseFail
         ELSE IF b[j] = 93 THEN ParseOk(JArr(Append(acc, r.val)), j + 1)
         ELSE IF b[j] = 44 THEN ParseElems(b, j + 1, Append(acc, r.val))
         ELSE ParseFail
ParseMembers(b, i0, acc) ==
    LET i == SkipWs(b, i0) IN
    IF i > Len(b) \/ b[i] # 34 THEN ParseFail
    ELSE LET e == StringEnd(b, i + 1) IN
         IF e = 0 THEN ParseFail
         ELSE LET c == SkipWs(b, e + 1) IN
              IF c > Len(b) \/ b[c] # 58 THEN ParseFail
              ELSE LET r == ParseValue(b, c + 1) IN
                   IF ~r.ok THEN ParseFail
                   ELSE LET j == SkipWs(b, r.next)
                            o == InsertMember(acc, <<SubSeq(b, i + 1, e - 1), r.val>>, 1)
                        IN IF j > Len(b) THEN ParseFail
                           ELSE IF b[j] = 125 THEN ParseOk(JObj(o), j + 1)
                           ELSE IF b[j] = 44 THEN ParseMembers(b, j + 1, o)
                           ELSE ParseFail

\* from_str: one value, then nothing but blanks.
from_str(js) ==
    LET r == ParseValue(js, 1) IN
    IF r.ok /\ SkipWs(js, r.next) > Len(js) THEN ParseOk(r.val, r.next) ELSE ParseFail

(***************************************************************************)
(* packet.rs: Opcode, Packet, Error                                        *)
(***************************************************************************)

Opcodes == <<"Connect", "Disconnect", "Event", "Ack", "Error", "BinaryEvent", "BinaryAck">>
Opcode == {Opcodes[i] : i \in DOMAIN Opcodes}

\* `opcode as u8`: the discriminants are the characters '0'..'6'.
OpcodeByte(op) == B("0") + (CHOOSE i \in DOMAIN Opcodes : Opcodes[i] = op) - 1

Packet(namespace, opcode, id, attachments_num, data, attachments) ==
    [namespace |-> namespace, opcode |-> opcode, id |-> id,
     attachments_num |-> attachments_num, data |-> data, attachments |-> attachments]

\* Result<Packet, Error>; Panicked is a thread that unwound in the call;
\* Undefined is a call whose behaviour the language leaves undefined.
Ok(p) == [tag |-> "Ok", val |-> p]
Err(e) == [tag |-> "Err", err |-> e]
Panicked == [tag |-> "Panic"]
Undefined(c) == [tag |-> "UB", byte |-> c]

Error(kind) == [kind |-> kind]
InvalidOpcode(c) == [kind |-> "InvalidOpcode", byte |-> c]

\* The derived Debug text of an Error.  The text inside JSONError(..) and
\* FromUtf8Error(..) is the library's and is left out.
ErrorDebug(e) ==
    CASE e.kind = "InvalidOpcode" ->
            Bytes(<<"I","n","v","a","l","i","d","O","p","c","o","d","e","(">>)
            \o usize_to_string(e.byte) \o Bytes(<<")">>)
      [] e.kind = "InvalidPacket" ->
            Bytes(<<"I","n","v","a","l","i","d","P","a","c","k","e","t">>)
      [] e.kind = "PacketDataNotArray" ->
            Bytes(<<"P","a","c","k","e","t","D","a","t","a","N","o","t","A","r","r","a","y">>)
      [] e.kind = "JSONError" ->
            Bytes(<<"J","S","O","N","E","r","r","o","r","(",")">>)
      [] e.kind = "FromUtf8Error" ->
            Bytes(<<"F","r","o","m","U","t","f","8","E","r","r","o","r","(",")">>)
      [] e.kind = "NoEvent" -> Bytes(<<"N","o","E","v","e","n","t">>)
      [] e.kind = "AckIDMissing" ->
            Bytes(<<"A","c","k","I","D","M","i","s","s","i","n","g">>)
      [] e.kind = "NonBinaryHasAttachments" ->
            Bytes(<<"N","o","n","B","i","n","a","r","y","H","a","s","A","t","t","a","c","h",
                    "m","e","n","t","s">>)

\* Packet::new_event
new_event(namespace, id, attachments_num, params) ==
    Packet(namespace, IF attachments_num = 0 THEN "Event" ELSE "BinaryEvent",
           id, attachments_num, Some(params), None)

\* new_error that leaves the namespace out.
new_error_global(namespace, error) ==
    Packet(None, "Error", None, 0, Some(JStr(ErrorDebug(error))), None)

\* Packet::new_error
new_error(namespace, error) ==
    Packet(namespace, "Error", None, 0, Some(JStr(ErrorDebug(error))), None)

\* Packet::new_ack
new_ack(namespace, id, attachments_num, params) ==
    Packet(namespace, IF attachments_num = 0 THEN "Ack" ELSE "BinaryAck",
           Some(id), attachments_num, Some(params), None)

\* add_attachment that never reports the packet full.
add_attachment_open(p, bytes) ==
    LET have == IF p.attachments.some THEN p.attachments.val ELSE <<>>
    IN [packet |-> [p EXCEPT !.attachments = Some(Append(have, bytes))], full |-> FALSE]

\* Packet::add_attachment: the packet after the push, and whether it is full.
\* The debug assertion (the packet is not already full) is AttachmentAssert.
AttachmentAssert(p) ==
    (IF p.attachments.some THEN Len(p.attachments.val) ELSE 0) # p.attachments_num
add_attachment(p, bytes) ==
    LET have == IF p.attachments.some THEN p.attachments.val ELSE <<>>
        q == [p EXCEPT !.attachments = Some(Append(have, bytes))]
    IN [packet |-> q, full |-> Len(q.attachments.val) = q.attachments_num]

\* Packet::get_attachments
get_attachments(p) == p.attachments

\* Packet::has_attachments
has_attachments(p) == p.attachments.some \/ p.attachments_num # 0

\* The attachment prefix loop of from_bytes: digits up to '-'.
RECURSIVE AttachPrefix(_, _, _)
AttachPrefix(b, i, n) ==
    IF i > Len(b) THEN [ok |-> TRUE, num |-> n, next |-> i]
    ELSE IF Len(b) - i = 0 THEN [ok |-> FALSE]
    ELSE IF b[i] = B("-") THEN [ok |-> TRUE, num |-> n, next |-> i + 1]
    ELSE IF to_digit(b[i]) < 0 THEN [ok |-> FALSE]
    ELSE AttachPrefix(b, i + 1, 10 * n + to_digit(b[i]))

\* The first position at or after i that holds a ',', or Len(b) + 1.
RECURSIVE CommaAt(_, _)
CommaAt(b, i) ==
    IF i > Len(b) \/ b[i] = B(",") THEN i ELSE CommaAt(b, i + 1)

\* The id loop of from_bytes: [has_id, id, next].
RECURSIVE IdDigits(_, _, _, _)
IdDigits(b, i, id, has_id) ==
    IF i <= Len(b) /\ b[i] >= B("0") /\ b[i] <= B("9")
    THEN IdDigits(b, i + 1, id * 10 + to_digit(b[i]), TRUE)
    ELSE [has_id |-> has_id, id |-> id, next |-> i]

IsBinaryOpcode(op) == op = "BinaryAck" \/ op = "BinaryEvent"

\* from_bytes after the opcode byte, for the opcode it was read as.
DecodeAs(opcode, bytes) ==
    LET att == IF IsBinaryOpcode(opcode) THEN AttachPrefix(bytes, 2, 0)
               ELSE [ok |-> TRUE, num |-> 0, next |-> 2]
    IN
    IF ~att.ok THEN Err(Error("InvalidPacket"))
    ELSE
    LET i1 == att.next
        has_nsp == i1 <= Len(bytes) /\ bytes[i1] = B("/")
        comma == CommaAt(bytes, i1)
        nspBytes == SubSeq(bytes, i1, comma - 1)
        i2 == IF has_nsp THEN (IF comma > Len(bytes) THEN comma ELSE comma + 1) ELSE i1
    IN
    IF has_nsp /\ ~Utf8Valid(nspBytes, 1) THEN Err(Error("FromUtf8Error"))
    ELSE
    LET nsp == IF has_nsp THEN Some(nspBytes) ELSE None
        idr == IdDigits(bytes, i2, 0, FALSE)
        js == From(bytes, idr.next)
        parsed == from_str(js)
        mk(data) == Ok(Packet(nsp, opcode, IF idr.has_id THEN Some(idr.id) ELSE None,
                              att.num, data, None))
    IN
    IF opcode \in {"Event", "BinaryEvent", "Ack", "BinaryAck"}
    THEN IF ~Utf8Valid(js, 1) THEN Err(Error("FromUtf8Error"))
         ELSE IF ~parsed.ok THEN Err(Error("JSONError"))
         ELSE IF opcode \in {"Event", "BinaryEvent"} /\ ~is_array(parsed.val)
              THEN Err(Error("PacketDataNotArray"))
         ELSE IF opcode \in {"Ack", "BinaryAck"} /\ ~idr.has_id
              THEN Err(Error("AckIDMissing"))
         ELSE IF ~IsBinaryOpcode(opcode) /\ att.num # 0
              THEN Err(Error("NonBinaryHasAttachments"))
         ELSE IF ~is_array(parsed.val) THEN Panicked   \* as_array().unwrap()
         ELSE IF parsed.val.a = <<>> THEN Err(Error("NoEvent"))
         ELSE mk(Some(parsed.val))
    ELSE mk(None)

\* Packet::from_bytes.  A first byte below '0' is transmuted to an Opcode
\* that is none of the variants: undefined behaviour.
from_bytes(bytes) ==
    IF Len(bytes) = 0 THEN Err(Error("InvalidPacket"))
    ELSE IF bytes[1] > OpcodeByte("BinaryAck") THEN Err(InvalidOpcode(bytes[1]))
    ELSE IF bytes[1] < OpcodeByte("Connect") THEN Undefined(bytes[1])
    ELSE DecodeAs(Opcodes[bytes[1] - B("0") + 1], bytes)

\* Packet::encode
encode(p) ==
    LET s1 == <<OpcodeByte(p.opcode)>>
        s2 == IF p.attachments_num # 0
              THEN s1 \o usize_to_string(p.attachments_num) \o <<B("-")>> ELSE s1
        s3 == IF p.namespace.some THEN s2 \o p.namespace.val ELSE s2
        nsp1 == p.namespace.some
        s4 == IF p.id.some
              THEN (IF nsp1 THEN s3 \o <<B(",")>> ELSE s3) \o usize_to_string(p.id.val)
              ELSE s3
        nsp2 == nsp1 /\ ~p.id.some
    IN IF p.data.some
       THEN (IF nsp2 THEN s4 \o <<B(",")>> ELSE s4) \o to_string(p.data.val)
       ELSE s4

(***************************************************************************)
(* data.rs: Data and the outbound attachment extraction                    *)
(***************************************************************************)

JSON(v) == [kind |-> "JSON", v |-> v]
Binary(b) == [kind |-> "Binary", b |-> b]

\* placeholder(num): the value parsed from {"_placeholder":true,"num": <num>}
placeholder(num) ==
    from_str(Bytes(<<"{", "\"", "_", "p", "l", "a", "c", "e", "h", "o", "l", "d", "e", "r",
                     "\"", ":", "t", "r", "u", "e", ",", "\"", "n", "u", "m", "\"", ":",
                     " ">>) \o usize_to_string(num) \o Bytes(<<"}">>)).val

\* encode_data: [json, binary], the array with a placeholder for each
\* Binary and the binaries in order.
RECURSIVE EncodeLoop(_, _, _, _, _)
EncodeLoop(data, i, json, binary, placeholder_num) ==
    IF i > Len(data) THEN [json |-> JArr(json), binary |-> binary]
    ELSE IF data[i].kind = "JSON"
         THEN EncodeLoop(data, i + 1, Append(json, data[i].v), binary, placeholder_num)
         ELSE EncodeLoop(data, i + 1, Append(json, placeholder(placeholder_num + 1)),
                         Append(binary, data[i].b), placeholder_num + 1)
encode_data(data) == EncodeLoop(data, 1, <<>>, <<>>, 0)

(***************************************************************************)
(* The program state                                                       *)
(***************************************************************************)

\* The transport ids of the connections the engine may open.
Sockets == {"c1", "c2"}

VARIABLES
    constructed,   \* the sockets Socket::new has built
    clients,       \* Server.clients: Vec<Socket>
    server_rooms,  \* Server.server_rooms: HashMap<String, Vec<Socket>>
    rooms_joined,  \* Socket.rooms_joined: Vec<String>, per socket
    callbacks,     \* Socket.callbacks: HashMap<String, handler>, per socket
    acks,          \* Socket.acks: HashMap<usize, continuation>, per socket
    cur_packet,    \* Socket.cur_packet: Option<Packet>, per socket
    last_ack_id,   \* Socket.last_ack_id, per socket
    namespace,     \* Socket.namespace: Option<String>, per socket
    poisoned,      \* the locks a panicking thread left poisoned
    closed,        \* the sockets whose transport was told to close, or closed
    sent,          \* the frames handed to each socket's transport, in order
    received,      \* the frames each socket's transport delivered, in order
    calls,         \* the handler and continuation invocations, per socket
    emitting,      \* the locals of the emit_ack call in progress, per socket
    panicked       \* whether the last operation unwound from a panic

sockVars == <<constructed, clients, server_rooms, rooms_joined, callbacks, acks, cur_packet,
              last_ack_id, namespace, poisoned, closed, sent, received, calls, emitting,
              panicked>>

\* The state as one record, so that an operation is a function from state
\* to state and operations compose as the calls in the code do.
World ==
    [constructed |-> constructed, clients |-> clients, server_rooms |-> server_rooms,
     rooms_joined |-> rooms_joined, callbacks |-> callbacks, acks |-> acks,
     cur_packet |-> cur_packet, last_ack_id |-> last_ack_id, namespace |-> namespace,
     poisoned |-> poisoned, closed |-> closed, sent |-> sent, received |-> received,
     calls |-> calls, emitting |-> emitting, panicked |-> panicked]

SetWorld(w) ==
    /\ constructed' = w.constructed
    /\ clients' = w.clients
    /\ server_rooms' = w.server_rooms
    /\ rooms_joined' = w.rooms_joined
    /\ callbacks' = w.callbacks
    /\ acks' = w.acks
    /\ cur_packet' = w.cur_packet
    /\ last_ack_id' = w.last_ack_id
    /\ namespace' = w.namespace
    /\ poisoned' = w.poisoned
    /\ closed' = w.closed
    /\ sent' = w.sent
    /\ received' = w.received
    /\ calls' = w.calls
    /\ emitting' = w.emitting
    /\ panicked' = w.panicked

\* Server::from_server builds an empty registry; Socket::new builds each
\* socket with empty tables, no buffered packet, no namespace and ack id 0.
EmptyMap == [x \in {} |-> <<>>]
SockInit ==
    /\ constructed = {}
    /\ clients = <<>>
    /\ server_rooms = EmptyMap
    /\ rooms_joined = [c \in Sockets |-> <<>>]
    /\ callbacks = [c \in Sockets |-> EmptyMap]
    /\ acks = [c \in Sockets |-> EmptyMap]
    /\ cur_packet = [c \in Sockets |-> None]
    /\ last_ack_id = [c \in Sockets |-> 0]
    /\ namespace = [c \in Sockets |-> None]
    /\ poisoned = [server_rooms |-> FALSE, clients |-> FALSE, rooms_joined |-> {}]
    /\ closed = {}
    /\ sent = [c \in Sockets |-> <<>>]
    /\ received = [c \in Sockets |-> <<>>]
    /\ calls = [c \in Sockets |-> <<>>]
    /\ emitting = [c \in Sockets |-> None]
    /\ panicked = FALSE

\* A map with key k set to v (HashMap::insert) and without key k (remove).
MapInsert(m, k, v) == [x \in DOMAIN m \cup {k} |-> IF x = k THEN v ELSE m[x]]
MapRemove(m, k) == [x \in DOMAIN m \ {k} |-> m[x]]

\* Vec::contains
Contains(v, x) == \E i \in DOMAIN v : v[i] = x

\* The thread unwinds from a panic; a write guard it holds poisons its lock.
Panic(w) == [w EXCEPT !.panicked = TRUE]
PanicHoldingRooms(w) == [w EXCEPT !.panicked = TRUE, !.poisoned.server_rooms = TRUE]
PanicHoldingJoined(w, c) ==
    [w EXCEPT !.panicked = TRUE, !.poisoned.rooms_joined = @ \cup {c}]
PanicHoldingClients(w) == [w EXCEPT !.panicked = TRUE, !.poisoned.clients = TRUE]

(***************************************************************************)
(* socket.rs: rooms                                                        *)
(***************************************************************************)

\* join without the push onto rooms_joined: the socket is listed in the room
\* but the room is not recorded as joined.
join_norecord(w, c, room) ==
    IF c \in w.poisoned.rooms_joined THEN Panic(w)
    ELSE IF Contains(w.rooms_joined[c], room) THEN w
    ELSE IF w.poisoned.server_rooms THEN PanicHoldingJoined(w, c)
    ELSE IF room \in DOMAIN w.server_rooms
         THEN [w EXCEPT !.server_rooms[room] = Append(@, c)]
         ELSE [w EXCEPT !.server_rooms = MapInsert(@, room, <<c>>)]

\* Socket::join
join(w, c, room) ==
    IF c \in w.poisoned.rooms_joined THEN Panic(w)
    ELSE IF Contains(w.rooms_joined[c], room) THEN w
    ELSE LET w1 == [w EXCEPT !.rooms_joined[c] = Append(@, room)] IN
         IF w1.poisoned.server_rooms THEN PanicHoldingJoined(w1, c)
         ELSE IF room \in DOMAIN w1.server_rooms
              THEN [w1 EXCEPT !.server_rooms[room] = Append(@, c)]
              ELSE [w1 EXCEPT !.server_rooms = MapInsert(@, room, <<c>>)]

\* Socket::leave: the room is removed from the server's map, with all its
\* members; rooms_joined is locked and left as it is.
leave(w, c, room) ==
    IF w.poisoned.server_rooms THEN Panic(w)
    ELSE IF room \in DOMAIN w.server_rooms
         THEN LET w1 == [w EXCEPT !.server_rooms = MapRemove(@, room)] IN
              IF c \in w1.poisoned.rooms_joined THEN PanicHoldingRooms(w1) ELSE w1
         ELSE w

\* Vec::swap_remove(i), i 1-based: the last element takes the place of the
\* i-th.
swap_remove(v, i) ==
    IF i = Len(v) THEN SubSeq(v, 1, Len(v) - 1)
    ELSE [SubSeq(v, 1, Len(v) - 1) EXCEPT ![i] = v[Len(v)]]

\* The index close() computes: the first position holding the socket, or
\* the first position when there is none.
CloseIndex(members, c) ==
    IF Contains(members, c)
    THEN CHOOSE i \in DOMAIN members :
             members[i] = c /\ \A j \in 1..(i - 1) : members[j] # c
    ELSE 1

\* The loop of Socket::close over rooms_joined, from its k-th room.
RECURSIVE CloseRooms(_, _, _)
CloseRooms(w, c, k) ==
    IF k > Len(w.rooms_joined[c]) THEN w
    ELSE LET room == w.rooms_joined[c][k] IN
         IF w.poisoned.server_rooms THEN Panic(w)
         ELSE IF room \notin DOMAIN w.server_rooms THEN PanicHoldingRooms(w)
         ELSE IF w.server_rooms[room] = <<>> THEN PanicHoldingRooms(w)
         ELSE CloseRooms([w EXCEPT !.server_rooms[room] =
                             swap_remove(@, CloseIndex(@, c))], c, k + 1)

\* Socket::close
close(w, c) ==
    LET w1 == [w EXCEPT !.closed = @ \cup {c}] IN
    IF c \in w1.poisoned.rooms_joined THEN Panic(w1) ELSE CloseRooms(w1, c, 1)

(***************************************************************************)
(* socket.rs: events, acks and the inbound message handler                 *)
(***************************************************************************)

\* The user's handlers, each by the Vec<Data> it returns.
Handlers == {"h_json", "h_bin", "h_none"}
HandlerReturn(h) ==
    CASE h = "h_json" -> <<JSON(JNum(2))>>
      [] h = "h_bin" -> <<JSON(JNum(2)), Binary(<<222, 173>>)>>
      [] h = "h_none" -> <<>>
      [] h = "h_on" -> <<>>

\* Socket::send
send(w, c, data) == [w EXCEPT !.sent[c] = Append(@, data)]

\* The loop `for b in attachments { self.send(b) }`.
RECURSIVE SendAll(_, _, _, _)
SendAll(w, c, frames, i) ==
    IF i > Len(frames) THEN w ELSE SendAll(send(w, c, frames[i]), c, frames, i + 1)

\* Socket::send_ack
send_ack(w, c, id, json, attachments) ==
    SendAll(send(w, c, encode(new_ack(w.namespace[c], id, Len(attachments), json))),
            c, attachments, 1)

\* Socket::on
on(w, c, event, f) == [w EXCEPT !.callbacks[c] = MapInsert(@, event, f)]

\* Socket::emit
emit(w, c, event, params) ==
    LET all_event_params == <<JSON(event)>> \o (IF params.some THEN params.val ELSE <<>>)
        enc == encode_data(all_event_params)
    IN SendAll(send(w, c, encode(new_event(w.namespace[c], None, Len(enc.binary),
                                           enc.json))),
               c, enc.binary, 1)

\* new_ack_id that reads the counter and leaves it as it is.
new_ack_id_stale(w, c) == [w |-> w, id |-> w.last_ack_id[c]]

\* Socket::new_ack_id: fetch_add returns the value before the increment.
new_ack_id(w, c) == [w |-> [w EXCEPT !.last_ack_id[c] = @ + 1], id |-> w.last_ack_id[c]]

\* Socket::emit_ack up to the end of the block that holds the acks lock: the
\* id is allocated and the continuation inserted under it.  The thread's
\* locals are kept in emitting[c].
emit_ack_register(w, c, event, params, on_ack) ==
    LET all_event_params == <<JSON(event)>> \o (IF params.some THEN params.val ELSE <<>>)
        a == new_ack_id(w, c)
    IN [a.w EXCEPT !.acks[c] = MapInsert(@, a.id, on_ack),
                   !.emitting[c] = Some([ack_id |-> a.id,
                                         all_event_params |-> all_event_params])]

\* Socket::emit_ack from encode_data on: the event frame, then each binary.
emit_ack_send(w, c) ==
    LET l == w.emitting[c].val
        enc == encode_data(l.all_event_params)
        w1 == [w EXCEPT !.emitting[c] = None]
    IN SendAll(send(w1, c, encode(new_event(w1.namespace[c], Some(l.ack_id),
                                            Len(enc.binary), enc.json))),
               c, enc.binary, 1)

\* Socket::fire_callback: [w, ack], ack the handler's return value if a
\* handler is registered under the JSON text of the event name.
fire_callback(w, c, packet) ==
    LET event_arr == packet.data.val.a
        key == to_string(event_arr[1])
    IN IF key \in DOMAIN w.callbacks[c]
       THEN [w |-> [w EXCEPT !.calls[c] =
                       Append(@, [fn |-> "handler", key |-> key, f |-> w.callbacks[c][key],
                                  data |-> Some(JArr(SubSeq(event_arr, 2, Len(event_arr)))),
                                  binary |-> get_attachments(packet)])],
             ack |-> Some(HandlerReturn(w.callbacks[c][key]))]
       ELSE [w |-> w, ack |-> None]

\* Socket::fire_ack
fire_ack(w, c, packet) ==
    IF packet.id.val \in DOMAIN w.acks[c]
    THEN [w EXCEPT !.acks[c] = MapRemove(@, packet.id.val),
                   !.calls[c] =
                       Append(@, [fn |-> "ack", key |-> <<packet.id.val>>,
                                  f |-> w.acks[c][packet.id.val],
                                  data |-> packet.data,
                                  binary |-> get_attachments(packet)])]
    ELSE w

\* The reply to an event: an ack packet with the handler's return value, or
\* the two bytes "[]" when no handler ran; nothing when the event has no id.
Reply(w, c, packet, ack) ==
    IF packet.id.some
    THEN IF ack.some
         THEN LET enc == encode_data(ack.val)
              IN send_ack(w, c, packet.id.val, enc.json, enc.binary)
         ELSE send(w, c, Bytes(<<"[", "]">>))
    ELSE w

\* on_message, the buffered branch once the packet is full.
FireBuffered(w, c, packet) ==
    CASE packet.opcode = "BinaryEvent" ->
            LET r == fire_callback(w, c, packet) IN Reply(r.w, c, packet, r.ack)
      [] packet.opcode = "BinaryAck" -> fire_ack(w, c, packet)
      [] OTHER -> Panic(w)   \* unreachable!()

\* on_message from the decoded packet on.
OnPacket(w, c, packet) ==
    IF packet.opcode = "Disconnect" THEN close(w, c)
    ELSE
    LET w1 == CASE packet.opcode = "Event" ->
                      LET r == fire_callback(w, c, packet) IN Reply(r.w, c, packet, r.ack)
                [] packet.opcode = "Ack" -> fire_ack(w, c, packet)
                [] packet.opcode = "Connect" ->
                      [w EXCEPT !.namespace[c] = packet.namespace]
                [] OTHER -> w
    IN IF has_attachments(packet) /\ IsBinaryOpcode(packet.opcode)
       THEN [w1 EXCEPT !.cur_packet[c] = Some(packet)]
       ELSE w1

\* on_message from Packet::from_bytes on; decoded is what from_bytes gave.
OnText(w, c, decoded) ==
    CASE decoded.tag = "Ok" -> OnPacket(w, c, decoded.val)
      [] decoded.tag = "Err" ->
            send(w, c, encode(new_error(w.namespace[c], decoded.err)))
      [] decoded.tag = "Panic" -> Panic(w)

\* What a build can make of Packet::from_bytes(bytes): its result, or, where
\* the opcode byte is transmuted to no variant, the packet read as any of
\* the opcodes, or a crash.
DecodeOutcomes(bytes) ==
    IF from_bytes(bytes).tag = "UB"
    THEN {DecodeAs(op, bytes) : op \in Opcode} \cup {Panicked}
    ELSE {from_bytes(bytes)}

\* The closure given to socket.on_message in Socket::new.
on_message(w, c, bytes, decoded) ==
    LET w0 == [w EXCEPT !.received[c] = Append(@, bytes)] IN
    IF w0.cur_packet[c].some
    THEN LET r == add_attachment(w0.cur_packet[c].val, bytes) IN
         IF r.full
         THEN OnText(FireBuffered([w0 EXCEPT !.cur_packet[c] = None], c, r.packet),
                     c, decoded)
         ELSE [w0 EXCEPT !.cur_packet[c] = Some(r.packet)]
    ELSE OnText(w0, c, decoded)

\* The closure given to socket.on_close in Socket::new: it runs the
\* Socket's on_close field, which nothing ever sets.
on_close(w, c) == [w EXCEPT !.closed = @ \cup {c}]

(***************************************************************************)
(* server.rs                                                               *)
(***************************************************************************)

\* The closure given to server.on_connection in Server::from_server.
on_connection(w, so) ==
    LET w1 == [w EXCEPT !.constructed = @ \cup {so}] IN
    IF w1.poisoned.server_rooms THEN Panic(w1)
    ELSE LET w2 == [w1 EXCEPT !.server_rooms = MapInsert(@, so, <<so>>)] IN
         IF w2.poisoned.clients THEN Panic(w2)
         ELSE [w2 EXCEPT !.clients = Append(@, so)]

\* Server::close, from its i-th client on, holding the clients write lock.
RECURSIVE ServerCloseLoop(_, _)
ServerCloseLoop(w, i) ==
    IF i > Len(w.clients) THEN w
    ELSE LET w1 == close(w, w.clients[i]) IN
         IF w1.panicked THEN PanicHoldingClients(w1) ELSE ServerCloseLoop(w1, i + 1)
server_close(w) == IF w.poisoned.clients THEN Panic(w) ELSE ServerCloseLoop(w, 1)

\* Server::emit
RECURSIVE ServerEmitLoop(_, _, _, _)
ServerEmitLoop(w, i, event, params) ==
    IF i > Len(w.clients) THEN w
    ELSE ServerEmitLoop(emit(w, w.clients[i], event, params), i + 1, event, params)
server_emit(w, event, params) ==
    IF w.poisoned.clients THEN Panic(w) ELSE ServerEmitLoop(w, 1, event, params)

(***************************************************************************)
(* The codec on its own: a packet is encoded and the text decoded.         *)
(***************************************************************************)

VARIABLES
    cstep,     \* "idle", "encoded" or "decoded"
    cpacket,   \* the packet given to encode
    cbytes,    \* the text
    cresult    \* what from_bytes returned for the text

codecVars == <<cstep, cpacket, cbytes, cresult>>

CodecInit ==
    /\ cstep = "idle"
    /\ cpacket = None
    /\ cbytes = <<>>
    /\ cresult = None

(***************************************************************************)
(* Threads calling join, leave and close, a lock acquisition at a time.    *)
(***************************************************************************)

Threads == {"t1", "t2"}

VARIABLES
    tpc,          \* per thread: "idle", or the lock acquisition it is at
    targ,         \* per thread: the socket, the room and the loop index of its call
    rooms_lock,   \* the thread holding server_rooms for writing, or "none"
    joined_lock   \* per socket: the writer and the readers of rooms_joined

lockVars == <<tpc, targ, rooms_lock, joined_lock>>

NoCall == [c |-> "c1", room |-> "r", k |-> 0]

LockInit ==
    /\ tpc = [t \in Threads |-> "idle"]
    /\ targ = [t \in Threads |-> NoCall]
    /\ rooms_lock = "none"
    /\ joined_lock = [c \in Sockets |-> [writer |-> "none", readers |-> {}]]

\* The locks of callbacks (an RwLock) and of acks (a Mutex), which the
\* dispatch of an inbound packet holds while user code runs.
VARIABLES
    callbacks_lock,   \* per socket: the writer and the readers of callbacks
    acks_lock         \* per socket: the thread holding acks, or "none"

leafVars == <<callbacks_lock, acks_lock>>

LeafInit ==
    /\ callbacks_lock = [c \in Sockets |-> [writer |-> "none", readers |-> {}]]
    /\ acks_lock = [c \in Sockets |-> "none"]

auxVars == <<codecVars, lockVars, leafVars>>

vars == <<sockVars, codecVars, lockVars, leafVars>>

Init == SockInit /\ CodecInit /\ LockInit /\ LeafInit

\* The inputs of the codec: namespaces, ids, attachment counts, payloads.
Namespaces == {None, Some(Bytes(<<"/">>)), Some(Bytes(<<"/", "a", "b", "c">>))}
Ids == {None, Some(0), Some(1), Some(12)}
EventPayloads ==
    {JArr(<<JStr(Bytes(<<"e">>))>>),
     JArr(<<JStr(Bytes(<<"f", "o", "o">>)), JStr(Bytes(<<"b", "a", "r">>))>>),
     JArr(<<JNum(1), JNum(2), JNum(3), JNum(4)>>),
     JArr(<<JStr(Bytes(<<"e">>)), placeholder(1), JArr(<<>>), JNull>>)}
AckPayloads ==
    {None, Some(JArr(<<>>)), Some(JArr(<<JNum(2)>>)), Some(JStr(Bytes(<<"o", "k">>))),
     Some(JArr(<<placeholder(1)>>))}
DiagnosticPayloads == {None, Some(JStr(ErrorDebug(Error("NoEvent"))))}
AttachmentCounts == {1, 2, 10}

\* The packets that satisfy the invariants of the data model: attachments
\* are expected exactly by the binary opcodes, an event has a non-empty
\* array payload, an ack has an id, the other opcodes have no id.
ValidPackets ==
    {Packet(n, "Event", i, 0, Some(d), None) :
        n \in Namespaces, i \in Ids, d \in EventPayloads}
    \cup {Packet(n[1], "BinaryEvent", i, n[2], Some(d), None) :
        n \in Namespaces \X AttachmentCounts, i \in Ids, d \in EventPayloads}
    \cup {Packet(n, "Ack", i, 0, d, None) :
        n \in Namespaces, i \in Ids \ {None}, d \in AckPayloads}
    \cup {Packet(n[1], "BinaryAck", i, n[2], d, None) :
        n \in Namespaces \X AttachmentCounts, i \in Ids \ {None}, d \in AckPayloads}
    \cup {Packet(n, op, None, 0, d, None) :
        n \in Namespaces, op \in {"Connect", "Disconnect", "Error"},
        d \in DiagnosticPayloads}

CodecEncode(p) ==
    /\ cstep = "idle"
    /\ cstep' = "encoded"
    /\ cpacket' = Some(p)
    /\ cbytes' = encode(p)
    /\ UNCHANGED <<cresult, sockVars, lockVars, leafVars>>

CodecDecode ==
    /\ cstep = "encoded"
    /\ cstep' = "decoded"
    /\ cresult' \in {Some(r) : r \in DecodeOutcomes(cbytes)}
    /\ UNCHANGED <<cpacket, cbytes, sockVars, lockVars, leafVars>>

CodecReset ==
    /\ cstep = "decoded"
    /\ cstep' = "idle"
    /\ cpacket' = None
    /\ cbytes' = <<>>
    /\ cresult' = None
    /\ UNCHANGED <<sockVars, lockVars, leafVars>>

CodecNext ==
    \/ \E p \in ValidPackets : CodecEncode(p)
    \/ CodecDecode
    \/ CodecReset

SpecCodec == Init /\ [][CodecNext]_vars

\* C1: decoding the text of a packet that satisfies the data model's
\* invariants gives back that packet.
C1_RoundTrip ==
    cstep = "decoded" => cresult = Some(Ok(cpacket.val))

(***************************************************************************)
(* The decoder on its own: from_bytes is given the bytes of a frame.       *)
(***************************************************************************)

\* First bytes: below '0', the seven opcodes, above '6'.
FirstBytes ==
    {B(" "), B("/"), B("0"), B("1"), B("2"), B("3"), B("4"), B("5"), B("6"), B("7"),
     B("A"), B("{")}

\* What follows the first byte.
Tails ==
    {<<>>,
     Bytes(<<"[", "\"", "e", "\"", "]">>),
     Bytes(<<"1", "[", "\"", "e", "\"", "]">>),
     Bytes(<<"1", "-", "[", "\"", "e", "\"", "]">>),
     Bytes(<<"1", "-", "2", "[", "2", "]">>),
     Bytes(<<"/", "a", ",", "1", "[", "2", "]">>),
     Bytes(<<"[", "]">>),
     Bytes(<<"1", "[", "]">>),
     Bytes(<<"1", "{", "}">>),
     Bytes(<<"1", "\"", "o", "k", "\"">>),
     Bytes(<<"1", "5">>),
     Bytes(<<"1">>),
     Bytes(<<"1", "-">>),
     Bytes(<<"x", "-", "[", "2", "]">>),
     Bytes(<<"[", "2">>),
     Bytes(<<"{", "}">>)}

DecodeInputs == {<<>>} \cup {<<b>> \o t : b \in FirstBytes, t \in Tails}

DecodeBytes(bytes) ==
    /\ cstep = "idle"
    /\ cstep' = "decoded"
    /\ cbytes' = bytes
    /\ cresult' \in {Some(r) : r \in DecodeOutcomes(bytes)}
    /\ UNCHANGED <<cpacket, sockVars, lockVars, leafVars>>

DecodeNext ==
    \/ \E bytes \in DecodeInputs : DecodeBytes(bytes)
    \/ CodecReset

SpecDecode == Init /\ [][DecodeNext]_vars

IsOpcodeByte(b) == b >= B("0") /\ b <= B("6")

\* C11: bytes that do not start with one of '0'..'6' are refused with an
\* error, no packet is built from them; no bytes at all give InvalidPacket.
C11_OpcodeValidated ==
    (cstep = "decoded" /\ (cbytes = <<>> \/ ~IsOpcodeByte(cbytes[1]))) =>
        /\ cresult.val.tag = "Err"
        /\ cbytes = <<>> => cresult.val = Err(Error("InvalidPacket"))

TypedErrors ==
    {"InvalidPacket", "PacketDataNotArray", "NoEvent", "AckIDMissing",
     "NonBinaryHasAttachments", "FromUtf8Error", "JSONError"}

\* C12: bytes that start with an opcode decode to a packet or to one of the
\* typed errors; from_bytes does not abort on them.
C12_DecodeTotal ==
    (cstep = "decoded" /\ cbytes # <<>> /\ IsOpcodeByte(cbytes[1])) =>
        \/ cresult.val.tag = "Ok"
        \/ cresult.val.tag = "Err" /\ cresult.val.err.kind \in TypedErrors

(***************************************************************************)
(* The operations as actions.  The engine opens connections and delivers   *)
(* frames and close notifications; the user, who is handed each socket by  *)
(* the server's connection callback, calls the public methods.             *)
(***************************************************************************)

\* Every operation starts on a thread that has not panicked.
Begin == [World EXCEPT !.panicked = FALSE]

\* The bounds on the frames delivered to one socket and on the emit_ack
\* and emit calls on one socket.
MaxFrames == 3
MaxAcks == 2
MaxEmits == 1

Connect(so) ==
    /\ so \notin constructed
    /\ SetWorld(on_connection(Begin, so))
    /\ UNCHANGED auxVars

Join(c, room) ==
    /\ Contains(clients, c)
    /\ SetWorld(join(Begin, c, room))
    /\ UNCHANGED auxVars

Leave(c, room) ==
    /\ Contains(clients, c)
    /\ SetWorld(leave(Begin, c, room))
    /\ UNCHANGED auxVars

Close(c) ==
    /\ Contains(clients, c)
    /\ SetWorld(close(Begin, c))
    /\ UNCHANGED auxVars

ServerClose ==
    /\ SetWorld(server_close(Begin))
    /\ UNCHANGED auxVars

ServerEmit(event, params) ==
    /\ \A c \in Sockets : Len(sent[c]) < MaxEmits
    /\ SetWorld(server_emit(Begin, event, params))
    /\ UNCHANGED auxVars

On(c, event, f) ==
    /\ Contains(clients, c)
    /\ SetWorld(on(Begin, c, event, f))
    /\ UNCHANGED auxVars

Emit(c, event, params) ==
    /\ Contains(clients, c)
    /\ Len(sent[c]) < MaxEmits
    /\ SetWorld(emit(Begin, c, event, params))
    /\ UNCHANGED auxVars

\* emit_ack runs on the user's thread, frames arrive on the transport's:
\* a frame can be handled between the two halves of emit_ack.
EmitAckRegister(c, event, params, on_ack) ==
    /\ Contains(clients, c)
    /\ ~emitting[c].some
    /\ last_ack_id[c] < MaxAcks
    /\ SetWorld(emit_ack_register(Begin, c, event, params, on_ack))
    /\ UNCHANGED auxVars

EmitAckSend(c) ==
    /\ emitting[c].some
    /\ SetWorld(emit_ack_send(Begin, c))
    /\ UNCHANGED auxVars

OnMessage(c, bytes) ==
    /\ c \in constructed
    /\ Len(received[c]) < MaxFrames
    /\ \E decoded \in DecodeOutcomes(bytes) :
           SetWorld(on_message(Begin, c, bytes, decoded))
    /\ UNCHANGED auxVars

TransportClose(c) ==
    /\ c \in constructed
    /\ c \notin closed
    /\ SetWorld(on_close(Begin, c))
    /\ UNCHANGED auxVars

(***************************************************************************)
(* One socket's traffic: events, acks and binary reassembly.               *)
(***************************************************************************)

EventE == JStr(Bytes(<<"e">>))

Blob == <<222, 173>>

\* The frames the peer sends in the traffic of events.
Frames ==
    {Bytes(<<"2", "[", "\"", "e", "\"", "]">>),                  \* event
     Bytes(<<"2", "1", "[", "\"", "e", "\"", ",", "5", "]">>),   \* event, id 1
     Bytes(<<"5", "2", "-", "1", "[", "\"", "e", "\"", "]">>),   \* binary event, id 1
     Bytes(<<"5", "1", "-", "[", "\"", "e", "\"", "]">>),        \* binary event, no id
     Blob,                                                       \* binary frame
     Bytes(<<"0", "/", "a">>),                                   \* connect to /a
     Bytes(<<"1">>)}                                             \* disconnect

\* The handlers the user registers.
Registrations ==
    {<<to_string(EventE), "h_json">>, <<to_string(EventE), "h_bin">>,
     <<Bytes(<<"e">>), "h_none">>}

Next ==
    \/ Connect("c1")
    \/ \E r \in Registrations : On("c1", r[1], r[2])
    \/ \E bytes \in Frames : OnMessage("c1", bytes)

Spec == Init /\ [][Next]_vars

(***************************************************************************)
(* One socket's acknowledged emits and the acks the peer sends back.       *)
(***************************************************************************)

Continuations == {"k1", "k2"}

AckFrames ==
    {Bytes(<<"3", "0", "[", "2", "]">>),                         \* ack of id 0
     Bytes(<<"3", "1", "[", "\"", "e", "\"", "]">>),             \* ack of id 1
     Bytes(<<"6", "1", "-", "0", "[", "2", "]">>),               \* binary ack of id 0
     Bytes(<<"5", "1", "-", "[", "\"", "e", "\"", "]">>),        \* binary event
     Blob}                                                       \* binary frame

AcksNext ==
    \/ Connect("c1")
    \/ \E k \in Continuations : EmitAckRegister("c1", EventE, None, k)
    \/ EmitAckSend("c1")
    \/ \E bytes \in AckFrames : OnMessage("c1", bytes)

SpecAcks == Init /\ [][AcksNext]_vars

(***************************************************************************)
(* Properties of one socket's traffic                                      *)
(***************************************************************************)

\* A step in which the transport delivered a frame to c, the frame, and
\* what the step added to the frames sent and to the invocations.
Arrived(c) == Len(received'[c]) = Len(received[c]) + 1
LastFrame(c) == received'[c][Len(received'[c])]
NewSent(c) == SubSeq(sent'[c], Len(sent[c]) + 1, Len(sent'[c]))
NewCalls(c) == SubSeq(calls'[c], Len(calls[c]) + 1, Len(calls'[c]))

\* The attachments of the buffered packet of c once the frame is added.
Collected(c) ==
    (IF cur_packet[c].val.attachments.some THEN cur_packet[c].val.attachments.val ELSE <<>>)
    \o <<LastFrame(c)>>

\* Whether a handler or continuation is registered for packet p on c.
HasTarget(c, p) ==
    IF p.opcode \in {"Event", "BinaryEvent"}
    THEN to_string(p.data.val.a[1]) \in DOMAIN callbacks[c]
    ELSE p.id.val \in DOMAIN acks[c]

C2_Step(c) ==
    Arrived(c) =>
        IF cur_packet[c].some
        THEN LET p == cur_packet[c].val IN
             IF Len(Collected(c)) < p.attachments_num
             THEN NewCalls(c) = <<>> /\ cur_packet'[c].some
             ELSE /\ cur_packet'[c] = None
                  /\ Len(NewCalls(c)) = (IF HasTarget(c, p) THEN 1 ELSE 0)
                  /\ \A k \in DOMAIN NewCalls(c) : NewCalls(c)[k].binary = Some(Collected(c))
        ELSE LET d == from_bytes(LastFrame(c)) IN
             (d.tag = "Ok" /\ IsBinaryOpcode(d.val.opcode) /\ d.val.attachments_num > 0)
                 => NewCalls(c) = <<>> /\ cur_packet'[c] = Some(d.val)

\* C2: after a binary event or binary ack that expects n attachments, nothing
\* is invoked while fewer than n frames have followed; the n-th frame
\* invokes the handler or continuation once, with the n frames in order,
\* and leaves no buffered packet.
C2_Reassembly == [][\A c \in Sockets : C2_Step(c)]_vars

\* The event the step dispatches, if any: an event decoded from the frame
\* when nothing is buffered, or the buffered binary event the frame
\* completes.
DispatchedEvent(c) ==
    IF cur_packet[c].some
    THEN IF cur_packet[c].val.opcode = "BinaryEvent"
            /\ Len(Collected(c)) = cur_packet[c].val.attachments_num
         THEN Some(cur_packet[c].val) ELSE None
    ELSE LET d == from_bytes(LastFrame(c)) IN
         IF d.tag = "Ok" /\ d.val.opcode = "Event" THEN Some(d.val) ELSE None

\* The frames of an ack packet with id i that carries the values ret.
AckFramesOf(nsp, i, ret) ==
    LET enc == encode_data(ret) IN
    <<encode(new_ack(nsp, i, Len(enc.binary), enc.json))>> \o enc.binary

C3_Step(c) ==
    (Arrived(c) /\ DispatchedEvent(c).some) =>
        LET p == DispatchedEvent(c).val
            key == to_string(p.data.val.a[1])
            expected ==
                IF ~p.id.some THEN <<>>
                ELSE IF key \in DOMAIN callbacks[c]
                     THEN AckFramesOf(namespace[c], p.id.val,
                                      HandlerReturn(callbacks[c][key]))
                     ELSE AckFramesOf(namespace[c], p.id.val, <<>>)
        IN IF p.opcode = "Event"
           THEN NewSent(c) = expected
           ELSE /\ Len(NewSent(c)) >= Len(expected)
                /\ SubSeq(NewSent(c), 1, Len(expected)) = expected

\* C3: a dispatched event with id i is answered by one ack packet with id i,
\* carrying the handler's return value, or [] when no handler is
\* registered; an event without id is not answered.
C3_AckReply == [][\A c \in Sockets : C3_Step(c)]_vars

\* The invocations of the continuation registered under ack id i on c.
AckCalls(c, i) == {k \in DOMAIN calls[c] : calls[c][k].fn = "ack" /\ calls[c][k].key = <<i>>}

\* The ack the step dispatches, if any: an ack decoded from the frame when
\* nothing is buffered, or the buffered binary ack the frame completes,
\* with its attachments.
DispatchedAck(c) ==
    IF cur_packet[c].some
    THEN IF cur_packet[c].val.opcode = "BinaryAck"
            /\ Len(Collected(c)) = cur_packet[c].val.attachments_num
         THEN Some([cur_packet[c].val EXCEPT !.attachments = Some(Collected(c))])
         ELSE None
    ELSE LET d == from_bytes(LastFrame(c)) IN
         IF d.tag = "Ok" /\ d.val.opcode = "Ack" THEN Some(d.val) ELSE None

\* The event frames with an id among the frames sent to c carry ids whose
\* continuation is registered or was invoked.
SentIds(c) ==
    {from_bytes(sent[c][k]).val.id.val :
        k \in {j \in DOMAIN sent[c] :
                  /\ from_bytes(sent[c][j]).tag = "Ok"
                  /\ from_bytes(sent[c][j]).val.opcode \in {"Event", "BinaryEvent"}
                  /\ from_bytes(sent[c][j]).val.id.some}}

C4_Inv ==
    \A c \in Sockets :
        /\ \A i \in SentIds(c) : i \in DOMAIN acks[c] \/ AckCalls(c, i) # {}
        /\ \A i \in 0..(last_ack_id[c] - 1) :
               /\ Cardinality(AckCalls(c, i)) <= 1
               /\ AckCalls(c, i) # {} => i \notin DOMAIN acks[c]
        /\ \A k \in DOMAIN calls[c] :
               calls[c][k].fn = "ack" => calls[c][k].key[1] < last_ack_id[c]

C4_Step(c) ==
    /\ \* emit_ack registers the continuation under the id it allocates
       last_ack_id'[c] # last_ack_id[c] =>
           /\ last_ack_id'[c] = last_ack_id[c] + 1
           /\ DOMAIN acks'[c] = DOMAIN acks[c] \cup {last_ack_id[c]}
           /\ sent'[c] = sent[c]
    /\ \* a continuation is invoked by the dispatch of an ack with its id
       (NewCalls(c) # <<>> /\ NewCalls(c)[1].fn = "ack") =>
           /\ Arrived(c)
           /\ DispatchedAck(c).some
    /\ (Arrived(c) /\ DispatchedAck(c).some) =>
           LET p == DispatchedAck(c).val IN
           IF p.id.val \in DOMAIN acks[c]
           THEN /\ NewCalls(c) # <<>>
                /\ NewCalls(c)[1] = [fn |-> "ack", key |-> <<p.id.val>>,
                                     f |-> acks[c][p.id.val], data |-> p.data,
                                     binary |-> p.attachments]
                /\ p.id.val \notin DOMAIN acks'[c]
           ELSE IF p.opcode = "Ack"
                THEN UNCHANGED <<constructed, clients, server_rooms, rooms_joined,
                                 callbacks, acks, cur_packet, last_ack_id, namespace,
                                 poisoned, closed, sent, calls, emitting>>
                ELSE \A k \in DOMAIN NewCalls(c) : NewCalls(c)[k].key # <<p.id.val>>

\* C4: emit_ack registers its continuation under the id it allocates before
\* the event frame is sent; the continuation is invoked once, by the first
\* ack dispatched with that id, with the ack's payload and attachments, and
\* is then gone; an ack with an id that is not pending invokes nothing and
\* changes nothing.
C4_AckCorrelation == [](C4_Inv) /\ [][\A c \in Sockets : C4_Step(c)]_vars

\* Whether the bytes are the text of a packet, as opposed to a binary
\* attachment.
IsText(bytes) == from_bytes(bytes).tag = "Ok"

C15_Step(c) ==
    (Arrived(c) /\ cur_packet[c].some /\ IsText(LastFrame(c))) =>
        /\ cur_packet'[c] = None
        /\ NewCalls(c) = <<>>
        /\ Len(NewSent(c)) = 1
        /\ NewSent(c)[1][1] = B("4")

\* C15: a packet's text that arrives while a buffered packet awaits its
\* attachments is not taken as an attachment: an Error packet is sent, the
\* buffered packet is dropped without being dispatched, and nothing stays
\* buffered.
C15_TextWhileAwaiting == [][\A c \in Sockets : C15_Step(c)]_vars

\* The reply the dispatch of event p sends: the ack packet of its id with
\* the handler's return value, if the event has an id and a handler.
ReplyOf(c, p) ==
    LET key == to_string(p.data.val.a[1]) IN
    IF p.id.some /\ key \in DOMAIN callbacks[c]
    THEN AckFramesOf(namespace[c], p.id.val, HandlerReturn(callbacks[c][key]))
    ELSE <<>>

C18_Step(c) ==
    (Arrived(c) /\ cur_packet[c].some) =>
        LET p == cur_packet[c].val
            q == [p EXCEPT !.attachments = Some(Collected(c))]
        IN /\ UNCHANGED <<constructed, clients, server_rooms, rooms_joined, callbacks,
                          last_ack_id, namespace, closed>>
           /\ IF Len(Collected(c)) < p.attachments_num
              THEN /\ cur_packet'[c] = Some(q)
                   /\ NewCalls(c) = <<>> /\ NewSent(c) = <<>> /\ acks' = acks
              ELSE /\ cur_packet'[c] = None
                   /\ Len(NewCalls(c)) = (IF HasTarget(c, p) THEN 1 ELSE 0)
                   /\ \A k \in DOMAIN NewSent(c) : NewSent(c)[k][1] # B("4")
                   /\ (p.opcode = "BinaryEvent" /\ HasTarget(c, p))
                          => NewSent(c) = ReplyOf(c, p)

\* C18: a frame that arrives while a packet is buffered is added to the
\* packet's attachments and does nothing else; the frame that completes
\* the packet causes the packet's dispatch and its reply only: no Error
\* packet, no second invocation, no namespace change, no close.
C18_AttachmentOnly == [][\A c \in Sockets : C18_Step(c)]_vars

\* C22: a buffered packet is a binary event or binary ack that expects
\* attachments and has collected fewer than it expects, so the assertion
\* of add_attachment holds whenever a frame is added.
C22_BufferedPacket ==
    \A c \in Sockets :
        cur_packet[c].some =>
            LET p == cur_packet[c].val
                n == IF p.attachments.some THEN Len(p.attachments.val) ELSE 0
            IN /\ IsBinaryOpcode(p.opcode)
               /\ p.attachments_num > 0
               /\ n < p.attachments_num
               /\ AttachmentAssert(p)

\* A binary event that expects two attachments is buffered with the first.
C22_Witness ==
    /\ cur_packet["c1"].some
    /\ cur_packet["c1"].val.attachments_num = 2
    /\ cur_packet["c1"].val.attachments = Some(<<Blob>>)

(***************************************************************************)
(* One socket's binary traffic: placeholders, and binary opcodes that      *)
(* announce no attachment.                                                 *)
(***************************************************************************)

\* The text of a binary packet: the head, the values, the closing bracket.
PlaceholderText(k) == to_string(placeholder(k))

BinaryFrames ==
    {Bytes(<<"5", "1", "-", "[", "\"", "e", "\"", ",">>) \o PlaceholderText(1)
         \o Bytes(<<"]">>),                                      \* binary event
     Bytes(<<"5", "1", "-", "1", "[", "\"", "e", "\"", ",">>) \o PlaceholderText(2)
         \o Bytes(<<"]">>),                                      \* placeholder 2 of 1
     Bytes(<<"6", "1", "-", "0", "[">>) \o PlaceholderText(1)
         \o Bytes(<<"]">>),                                      \* binary ack of id 0
     Bytes(<<"5", "0", "-", "[", "\"", "e", "\"", "]">>),        \* no attachment
     Bytes(<<"5", "0", "-", "1", "[", "\"", "e", "\"", "]">>),   \* no attachment, id 1
     Bytes(<<"6", "0", "-", "0", "[", "2", "]">>),               \* binary ack, none
     Blob}

BinaryNext ==
    \/ Connect("c1")
    \/ On("c1", to_string(EventE), "h_json")
    \/ EmitAckRegister("c1", EventE, None, "k1")
    \/ EmitAckSend("c1")
    \/ \E bytes \in BinaryFrames : OnMessage("c1", bytes)

SpecBinary == Init /\ [][BinaryNext]_vars

\* Whether a value is the placeholder of an attachment, and of which.
IsPlaceholder(v) ==
    /\ v.t = "obj"
    /\ Len(v.o) = 2
    /\ v.o[2][2].t = "num"
    /\ v = placeholder(v.o[2][2].n)
PlaceholderNum(v) == v.o[2][2].n

\* A value with each placeholder replaced by the attachment it numbers.
RECURSIVE Inject(_, _)
Inject(v, atts) ==
    IF IsPlaceholder(v) THEN Binary(atts[PlaceholderNum(v)])
    ELSE IF v.t = "arr" THEN JArr([i \in DOMAIN v.a |-> Inject(v.a[i], atts)])
    ELSE IF v.t = "obj"
         THEN JObj([i \in DOMAIN v.o |-> <<v.o[i][1], Inject(v.o[i][2], atts)>>])
    ELSE v

\* Whether every placeholder of a value numbers one of n attachments.
RECURSIVE InRange(_, _)
InRange(v, n) ==
    IF IsPlaceholder(v) THEN PlaceholderNum(v) >= 1 /\ PlaceholderNum(v) <= n
    ELSE IF v.t = "arr" THEN \A i \in DOMAIN v.a : InRange(v.a[i], n)
    ELSE IF v.t = "obj" THEN \A i \in DOMAIN v.o : InRange(v.o[i][2], n)
    ELSE TRUE

C17_Step(c) ==
    (/\ Arrived(c)
     /\ cur_packet[c].some
     /\ Len(Collected(c)) = cur_packet[c].val.attachments_num
     /\ HasTarget(c, cur_packet[c].val)) =>
        LET p == cur_packet[c].val
            args == IF p.opcode = "BinaryEvent" THEN JArr(Tail(p.data.val.a))
                    ELSE p.data.val
        IN IF InRange(p.data.val, Len(Collected(c)))
           THEN /\ NewCalls(c) # <<>>
                /\ NewCalls(c)[1].data = Some(Inject(args, Collected(c)))
           ELSE /\ NewCalls(c) = <<>>
                /\ NewSent(c) # <<>>
                /\ NewSent(c)[1][1] = B("4")

\* C17: the handler or continuation of a completed binary packet is given
\* the payload with each placeholder replaced by the attachment it
\* numbers; a placeholder that numbers no attachment is reported as an
\* error and nothing is invoked.
C17_Reinsertion == [][\A c \in Sockets : C17_Step(c)]_vars

C19_Step(c) ==
    (/\ Arrived(c)
     /\ ~cur_packet[c].some
     /\ IsText(LastFrame(c))
     /\ IsBinaryOpcode(from_bytes(LastFrame(c)).val.opcode)
     /\ from_bytes(LastFrame(c)).val.attachments_num = 0) =>
        LET p == from_bytes(LastFrame(c)).val IN
        /\ cur_packet'[c] = None
        /\ Len(NewCalls(c)) = (IF HasTarget(c, p) THEN 1 ELSE 0)
        /\ (p.opcode = "BinaryEvent" /\ HasTarget(c, p)) => NewSent(c) = ReplyOf(c, p)
        /\ p.opcode = "BinaryAck" => p.id.val \notin DOMAIN acks'[c]

\* C19: a binary event or binary ack that announces no attachment is
\* dispatched when it arrives, as an event or an ack is, and nothing is
\* buffered.
C19_NoAttachmentDispatched == [][\A c \in Sockets : C19_Step(c)]_vars

(***************************************************************************)
(* One socket's traffic with frames that do not decode.                    *)
(***************************************************************************)

ErrorFrames ==
    {Bytes(<<"0", "/", "a">>),                         \* connect to /a
     Bytes(<<"2", "[", "\"", "e", "\"", "]">>),        \* event
     Blob,                                             \* InvalidOpcode
     Bytes(<<"2">>),                                   \* JSONError
     Bytes(<<"3", "[", "2", "]">>),                    \* AckIDMissing
     Bytes(<<"2", "{", "}">>),                         \* PacketDataNotArray
     Bytes(<<"2", "[", "]">>),                         \* NoEvent
     Bytes(<<"5", "x", "-", "[", "2", "]">>)}          \* InvalidPacket

ErrorsNext ==
    \/ Connect("c1")
    \/ On("c1", to_string(EventE), "h_json")
    \/ \E bytes \in ErrorFrames : OnMessage("c1", bytes)

SpecErrors == Init /\ [][ErrorsNext]_vars

\* The Error packet that reports error e in namespace nsp.
ErrorFrame(nsp, e) == encode(Packet(nsp, "Error", None, 0, Some(JStr(ErrorDebug(e))), None))

C13_Step(c) ==
    (Arrived(c) /\ ~cur_packet[c].some /\ from_bytes(LastFrame(c)).tag = "Err") =>
        /\ NewSent(c) = <<ErrorFrame(namespace[c], from_bytes(LastFrame(c)).err)>>
        /\ NewSent(c)[1][1] = B("4")
        /\ NewCalls(c) = <<>>
        /\ ~panicked'
        /\ UNCHANGED <<constructed, clients, server_rooms, rooms_joined, callbacks, acks,
                       cur_packet, last_ack_id, namespace, poisoned, closed, emitting>>

\* C13: a frame that arrives when nothing is buffered and fails to decode
\* is answered with one Error packet in the socket's namespace, carrying
\* the diagnostic; nothing is invoked, nothing else changes, the socket is
\* not closed.
C13_FramingError == [][\A c \in Sockets : C13_Step(c)]_vars

\* In namespace /a a frame with an invalid opcode was answered with the
\* Error packet, and the event that followed reached its handler.
C13_Witness ==
    /\ received["c1"] = <<Bytes(<<"0", "/", "a">>), Blob,
                          Bytes(<<"2", "[", "\"", "e", "\"", "]">>)>>
    /\ sent["c1"] = <<Bytes(<<"4", "/", "a", ",", "\"", "I", "n", "v", "a", "l", "i", "d",
                              "O", "p", "c", "o", "d", "e", "(", "2", "2", "2", ")",
                              "\"">>)>>
    /\ Len(calls["c1"]) = 1
    /\ "c1" \notin closed

(***************************************************************************)
(* One socket's acknowledged emits, acks from the peer, and close().       *)
(***************************************************************************)

AckCloseNext ==
    \/ Connect("c1")
    \/ \E k \in Continuations : EmitAckRegister("c1", EventE, None, k)
    \/ EmitAckSend("c1")
    \/ Close("c1")
    \/ \E bytes \in {Bytes(<<"3", "0", "[", "2", "]">>),
                     Bytes(<<"3", "1", "[", "2", "]">>)} : OnMessage("c1", bytes)

SpecAckClose == Init /\ [][AckCloseNext]_vars

\* C14: a closed socket has no pending continuation, close() invokes none,
\* and none is invoked on a closed socket afterwards.
C14_ClosedDropsAcks ==
    /\ [](\A c \in closed : acks[c] = EmptyMap)
    /\ [][\A c \in Sockets :
             /\ (c \notin closed /\ c \in closed') => NewCalls(c) = <<>>
             /\ c \in closed => \A k \in DOMAIN NewCalls(c) : NewCalls(c)[k].fn # "ack"]_vars

\* The part of C14 about invocations: no continuation runs on a closed
\* socket.
C14_NoCallAfterClose ==
    [][\A c \in closed : \A k \in DOMAIN NewCalls(c) : NewCalls(c)[k].fn # "ack"]_vars

(***************************************************************************)
(* The registry: connections, rooms, closing and broadcast.                *)
(***************************************************************************)

\* The room names the user joins and leaves: a room of its own, and a
\* transport id, which names that socket's own room.
RoomNames == {"r", "c1"}

Disconnect == Bytes(<<"1">>)

RegistryNext ==
    \/ \E so \in Sockets : Connect(so)
    \/ \E c \in Sockets, room \in RoomNames : Join(c, room)
    \/ \E c \in Sockets, room \in RoomNames : Leave(c, room)
    \/ \E c \in Sockets : Close(c)
    \/ OnMessage("c1", Disconnect)
    \/ \E c \in Sockets : TransportClose(c)
    \/ ServerClose
    \/ ServerEmit(EventE, None)

SpecRegistry == Init /\ [][RegistryNext]_vars

(***************************************************************************)
(* join, leave and close on threads.  A thread's step acquires the lock it *)
(* is at, when the lock is free, and runs to its next acquisition or to    *)
(* the end of the call; the locks it holds stay held in between.           *)
(***************************************************************************)

JoinedWriteFree(c) == joined_lock[c].writer = "none" /\ joined_lock[c].readers = {}
JoinedReadFree(c) == joined_lock[c].writer = "none"
RoomsFree == rooms_lock = "none"

Return(t) == tpc' = [tpc EXCEPT ![t] = "idle"] /\ targ' = [targ EXCEPT ![t] = NoCall]

\* A thread calls join, leave or close; close tells the transport to close
\* before it takes a lock.
Call(t, op, c, room) ==
    /\ tpc[t] = "idle"
    /\ Contains(clients, c)
    /\ tpc' = [tpc EXCEPT ![t] = CASE op = "join" -> "join_joined"
                                   [] op = "leave" -> "leave_rooms"
                                   [] op = "close" -> "close_joined"]
    /\ targ' = [targ EXCEPT ![t] = [c |-> c, room |-> room, k |-> 1]]
    /\ SetWorld(IF op = "close" THEN [Begin EXCEPT !.closed = @ \cup {c}] ELSE Begin)
    /\ UNCHANGED <<rooms_lock, joined_lock, codecVars, leafVars>>

\* join: self.rooms_joined.write(), the test and the push.
JoinLockJoined(t) ==
    LET c == targ[t].c
        room == targ[t].room
    IN /\ tpc[t] = "join_joined"
       /\ JoinedWriteFree(c)
       /\ IF c \in poisoned.rooms_joined
          THEN SetWorld(Panic(World)) /\ Return(t) /\ UNCHANGED joined_lock
          ELSE IF Contains(rooms_joined[c], room)
          THEN SetWorld(World) /\ Return(t) /\ UNCHANGED joined_lock
          ELSE /\ SetWorld([World EXCEPT !.rooms_joined[c] = Append(@, room)])
               /\ joined_lock' = [joined_lock EXCEPT ![c].writer = t]
               /\ tpc' = [tpc EXCEPT ![t] = "join_rooms"]
               /\ UNCHANGED targ
       /\ UNCHANGED <<rooms_lock, codecVars, leafVars>>

\* join: self.server_rooms.write() and the insertion, holding rooms_joined.
JoinLockRooms(t) ==
    LET c == targ[t].c
        room == targ[t].room
    IN /\ tpc[t] = "join_rooms"
       /\ RoomsFree
       /\ SetWorld(IF poisoned.server_rooms THEN PanicHoldingJoined(World, c)
                   ELSE IF room \in DOMAIN server_rooms
                        THEN [World EXCEPT !.server_rooms[room] = Append(@, c)]
                        ELSE [World EXCEPT !.server_rooms = MapInsert(@, room, <<c>>)])
       /\ joined_lock' = [joined_lock EXCEPT ![c].writer = "none"]
       /\ Return(t)
       /\ UNCHANGED <<rooms_lock, codecVars, leafVars>>

\* leave: self.server_rooms.write() and the removal.
LeaveLockRooms(t) ==
    LET room == targ[t].room
    IN /\ tpc[t] = "leave_rooms"
       /\ RoomsFree
       /\ IF poisoned.server_rooms
          THEN SetWorld(Panic(World)) /\ Return(t) /\ UNCHANGED rooms_lock
          ELSE IF room \in DOMAIN server_rooms
          THEN /\ SetWorld([World EXCEPT !.server_rooms = MapRemove(@, room)])
               /\ rooms_lock' = t
               /\ tpc' = [tpc EXCEPT ![t] = "leave_joined"]
               /\ UNCHANGED targ
          ELSE SetWorld(World) /\ Return(t) /\ UNCHANGED rooms_lock
       /\ UNCHANGED <<joined_lock, codecVars, leafVars>>

\* leave: self.rooms_joined.write(), holding server_rooms.
LeaveLockJoined(t) ==
    LET c == targ[t].c
    IN /\ tpc[t] = "leave_joined"
       /\ JoinedWriteFree(c)
       /\ SetWorld(IF c \in poisoned.rooms_joined THEN PanicHoldingRooms(World) ELSE World)
       /\ rooms_lock' = "none"
       /\ Return(t)
       /\ UNCHANGED <<joined_lock, codecVars, leafVars>>

\* close: self.rooms_joined.read().
CloseLockJoined(t) ==
    LET c == targ[t].c
    IN /\ tpc[t] = "close_joined"
       /\ JoinedReadFree(c)
       /\ IF c \in poisoned.rooms_joined
          THEN SetWorld(Panic(World)) /\ Return(t) /\ UNCHANGED joined_lock
          ELSE IF rooms_joined[c] = <<>>
          THEN SetWorld(World) /\ Return(t) /\ UNCHANGED joined_lock
          ELSE /\ SetWorld(World)
               /\ joined_lock' = [joined_lock EXCEPT ![c].readers = @ \cup {t}]
               /\ tpc' = [tpc EXCEPT ![t] = "close_rooms"]
               /\ UNCHANGED targ
       /\ UNCHANGED <<rooms_lock, codecVars, leafVars>>

\* close: self.server_rooms.write() and the removal for the k-th joined
\* room, holding rooms_joined for reading.
CloseLockRooms(t) ==
    LET c == targ[t].c
        k == targ[t].k
        room == rooms_joined[c][k]
        released == [joined_lock EXCEPT ![c].readers = @ \ {t}]
    IN /\ tpc[t] = "close_rooms"
       /\ RoomsFree
       /\ IF poisoned.server_rooms
          THEN SetWorld(Panic(World)) /\ Return(t) /\ joined_lock' = released
          ELSE IF room \notin DOMAIN server_rooms \/ server_rooms[room] = <<>>
          THEN SetWorld(PanicHoldingRooms(World)) /\ Return(t) /\ joined_lock' = released
          ELSE /\ SetWorld([World EXCEPT !.server_rooms[room] =
                               swap_remove(@, CloseIndex(@, c))])
               /\ IF k = Len(rooms_joined[c])
                  THEN Return(t) /\ joined_lock' = released
                  ELSE /\ targ' = [targ EXCEPT ![t].k = k + 1]
                       /\ UNCHANGED <<tpc, joined_lock>>
       /\ UNCHANGED <<rooms_lock, codecVars, leafVars>>

\* The engine's connection callback takes server_rooms for writing.
LockedConnect(so) == RoomsFree /\ Connect(so)

LocksNext ==
    \/ \E so \in Sockets : LockedConnect(so)
    \/ \E t \in Threads, op \in {"join", "leave", "close"}, c \in Sockets,
          room \in RoomNames : Call(t, op, c, room)
    \/ \E t \in Threads : JoinLockJoined(t)
    \/ \E t \in Threads : JoinLockRooms(t)
    \/ \E t \in Threads : LeaveLockRooms(t)
    \/ \E t \in Threads : LeaveLockJoined(t)
    \/ \E t \in Threads : CloseLockJoined(t)
    \/ \E t \in Threads : CloseLockRooms(t)

SpecLocks == Init /\ [][LocksNext]_vars

\* The thread holding the lock that thread t is waiting for, if one does.
WaitsFor(t, u) ==
    /\ u # t
    /\ \/ tpc[t] \in {"join_rooms", "leave_rooms", "close_rooms"} /\ rooms_lock = u
       \/ /\ tpc[t] \in {"join_joined", "leave_joined"}
          /\ u = joined_lock[targ[t].c].writer \/ u \in joined_lock[targ[t].c].readers
       \/ tpc[t] = "close_joined" /\ u = joined_lock[targ[t].c].writer

\* Whether thread t holds the rooms_joined lock of some socket.
HoldsJoined(t) ==
    \E c \in Sockets : joined_lock[c].writer = t \/ t \in joined_lock[c].readers

\* C10, the order: no thread asks for server_rooms while it holds a
\* rooms_joined lock.
C10_LockOrder ==
    \A t \in Threads :
        tpc[t] \in {"join_rooms", "leave_rooms", "close_rooms"} => ~HoldsJoined(t)

\* C10: no threads calling join, leave and close ever wait for locks held by
\* one another; with server_rooms always taken before rooms_joined, none
\* could.
C10_NoDeadlock ==
    ~ \E D \in SUBSET Threads :
          /\ D # {}
          /\ \A t \in D : \E u \in D : WaitsFor(t, u)

(***************************************************************************)
(* emit, emit_ack and ack replies on threads, a shared access at a time:   *)
(* the fetch_add of the ack id, the insertion under the acks lock, and     *)
(* each send.                                                              *)
(***************************************************************************)

Blob2 == <<190, 239>>

\* The bound on the frames handed to one socket's transport.
MaxSent == 5

\* The frames emit and emit_ack send: the event's text, then each binary.
emit_frames(nsp, id, event, params) ==
    LET all_event_params == <<JSON(event)>> \o (IF params.some THEN params.val ELSE <<>>)
        enc == encode_data(all_event_params)
    IN <<encode(new_event(nsp, id, Len(enc.binary), enc.json))>> \o enc.binary

\* The frames send_ack sends for a handler's return value.
send_ack_frames(nsp, id, ack) ==
    LET enc == encode_data(ack)
    IN <<encode(new_ack(nsp, id, Len(enc.binary), enc.json))>> \o enc.binary

Busy == {t \in Threads : tpc[t] # "idle"}

\* A call may start while the frames sent and those the calls in progress
\* may send leave room for its own.
RoomToSend(c) == Len(sent[c]) + 2 * Cardinality(Busy) + 2 <= MaxSent

\* emit: no shared access before the first send.
CallEmit(t, c, event, params) ==
    /\ tpc[t] = "idle"
    /\ Contains(clients, c)
    /\ RoomToSend(c)
    /\ tpc' = [tpc EXCEPT ![t] = "send"]
    /\ targ' = [targ EXCEPT ![t] =
                   [c |-> c, ack_id |-> None,
                    frames |-> emit_frames(namespace[c], None, event, params)]]
    /\ SetWorld(Begin)
    /\ UNCHANGED <<rooms_lock, joined_lock, codecVars, leafVars>>

\* emit_ack: the call, up to new_ack_id.
CallEmitAck(t, c, event, params, on_ack) ==
    /\ tpc[t] = "idle"
    /\ Contains(clients, c)
    /\ RoomToSend(c)
    /\ last_ack_id[c] < MaxAcks
    /\ tpc' = [tpc EXCEPT ![t] = "ack_id"]
    /\ targ' = [targ EXCEPT ![t] =
                   [c |-> c, event |-> event, params |-> params, on_ack |-> on_ack]]
    /\ SetWorld(Begin)
    /\ UNCHANGED <<rooms_lock, joined_lock, codecVars, leafVars>>

\* emit_ack: let ack_id = self.new_ack_id().
AckId(t) ==
    LET l == targ[t]
        a == new_ack_id(World, l.c)
    IN /\ tpc[t] = "ack_id"
       /\ SetWorld(a.w)
       /\ tpc' = [tpc EXCEPT ![t] = "ack_insert"]
       /\ targ' = [targ EXCEPT ![t] =
                      [c |-> l.c, event |-> l.event, params |-> l.params,
                       on_ack |-> l.on_ack, ack_id |-> Some(a.id)]]
       /\ UNCHANGED <<rooms_lock, joined_lock, codecVars, leafVars>>

\* emit_ack: the insertion under the acks lock.
AckInsert(t) ==
    LET l == targ[t]
    IN /\ tpc[t] = "ack_insert"
       /\ SetWorld([World EXCEPT !.acks[l.c] = MapInsert(@, l.ack_id.val, l.on_ack)])
       /\ tpc' = [tpc EXCEPT ![t] = "send"]
       /\ targ' = [targ EXCEPT ![t] =
                      [c |-> l.c, ack_id |-> l.ack_id, on_ack |-> l.on_ack,
                       frames |-> emit_frames(namespace[l.c], l.ack_id, l.event, l.params)]]
       /\ UNCHANGED <<rooms_lock, joined_lock, codecVars, leafVars>>

\* The reply to an event with an id, on the transport's thread: send_ack is
\* called with the handler's return value.
CallSendAck(t, c, id, ack) ==
    /\ tpc[t] = "idle"
    /\ Contains(clients, c)
    /\ RoomToSend(c)
    /\ tpc' = [tpc EXCEPT ![t] = "send"]
    /\ targ' = [targ EXCEPT ![t] =
                   [c |-> c, ack_id |-> None,
                    frames |-> send_ack_frames(namespace[c], id, ack)]]
    /\ SetWorld(Begin)
    /\ UNCHANGED <<rooms_lock, joined_lock, codecVars, leafVars>>

\* One self.send(..): the next frame of the thread's packet.
SendFrame(t) ==
    LET l == targ[t]
    IN /\ tpc[t] = "send"
       /\ SetWorld(send(World, l.c, Head(l.frames)))
       /\ IF Len(l.frames) = 1
          THEN Return(t)
          ELSE /\ targ' = [targ EXCEPT ![t].frames = Tail(@)]
               /\ UNCHANGED tpc
       /\ UNCHANGED <<rooms_lock, joined_lock, codecVars, leafVars>>

SendNext ==
    \/ Connect("c1")
    \/ \E t \in Threads, params \in {None, Some(<<Binary(Blob)>>)} :
          CallEmit(t, "c1", EventE, params)
    \/ \E t \in Threads, on_ack \in Continuations :
          CallEmitAck(t, "c1", EventE, Some(<<Binary(Blob2)>>), on_ack)
    \/ \E t \in Threads : AckId(t)
    \/ \E t \in Threads : AckInsert(t)
    \/ \E t \in Threads : CallSendAck(t, "c1", 1, HandlerReturn("h_bin"))
    \/ \E t \in Threads : SendFrame(t)

SpecSend == Init /\ [][SendNext]_vars

\* The threads that hold an allocated ack id, and the id.
HasId(t) == tpc[t] = "ack_insert" \/ (tpc[t] = "send" /\ targ[t].ack_id.some)
IdOf(t) == targ[t].ack_id.val

\* The positions of the event frames with an id among the frames sent.
IdFrames(c) ==
    {j \in DOMAIN sent[c] :
        /\ IsText(sent[c][j])
        /\ from_bytes(sent[c][j]).val.opcode \in {"Event", "BinaryEvent"}
        /\ from_bytes(sent[c][j]).val.id.some}
SentId(c, j) == from_bytes(sent[c][j]).val.id.val

C16_Inv ==
    /\ \A t, u \in Threads : (HasId(t) /\ HasId(u) /\ t # u) => IdOf(t) # IdOf(u)
    /\ \A t \in Threads :
           HasId(t) =>
               /\ IdOf(t) < last_ack_id[targ[t].c]
               /\ tpc[t] = "send" =>
                      /\ IdOf(t) \in DOMAIN acks[targ[t].c]
                      /\ acks[targ[t].c][IdOf(t)] = targ[t].on_ack
    /\ \A c \in Sockets :
           /\ DOMAIN acks[c] \subseteq 0..(last_ack_id[c] - 1)
           /\ \A j, k \in IdFrames(c) : SentId(c, j) = SentId(c, k) => j = k
           /\ \A j \in IdFrames(c) : SentId(c, j) \in DOMAIN acks[c]

C16_Step ==
    \A c \in Sockets :
        /\ last_ack_id'[c] # last_ack_id[c] =>
               /\ last_ack_id'[c] = last_ack_id[c] + 1
               /\ \E t \in Threads :
                      tpc[t] = "ack_id" /\ tpc'[t] = "ack_insert"
                      /\ targ'[t].ack_id = Some(last_ack_id[c])
        /\ \A i \in DOMAIN acks[c] : i \in DOMAIN acks'[c] /\ acks'[c][i] = acks[c][i]

\* C16: the ids emit_ack allocates on a socket are 0, 1, 2, .. in the order
\* of allocation; calls on different threads never hold the same id, no
\* registered continuation is replaced, and each event sent with an id has
\* its own entry among the pending acks.
C16_AckIds == [](C16_Inv) /\ [][C16_Step]_vars

\* Two emit_ack calls overlap: t1 was given id 0 and has not sent yet, t2
\* was given id 1 and its event is already sent; both continuations are
\* registered.
C16_Witness ==
    /\ tpc["t1"] = "send" /\ targ["t1"].ack_id = Some(0) /\ targ["t1"].on_ack = "k1"
    /\ tpc["t2"] = "idle"
    /\ IdFrames("c1") # {}
    /\ \A j \in IdFrames("c1") : SentId("c1", j) = 1
    /\ acks["c1"] = MapInsert(MapInsert(EmptyMap, 0, "k1"), 1, "k2")

\* Whether the frames from position i on are packets one after the other:
\* a text, then as many binary frames as it announces.
RECURSIVE WellFramed(_, _)
WellFramed(s, i) ==
    IF i > Len(s) THEN TRUE
    ELSE /\ IsText(s[i])
         /\ LET k == from_bytes(s[i]).val.attachments_num IN
            /\ \A m \in 1..k : i + m <= Len(s) => ~IsText(s[i + m])
            /\ WellFramed(s, i + k + 1)

\* C20: the frames handed to a socket's transport are its packets one after
\* the other, each text followed by its attachments, whatever the threads
\* that send them; once the calls have returned no attachment is missing.
C20_Contiguous ==
    \A c \in Sockets :
        /\ WellFramed(sent[c], 1)
        /\ Busy = {} =>
               \A j \in DOMAIN sent[c] :
                   IsText(sent[c][j]) =>
                       j + from_bytes(sent[c][j]).val.attachments_num <= Len(sent[c])

(***************************************************************************)
(* Dispatch with its locks: the transport's thread t1 runs the on_message  *)
(* closure, which holds the callbacks read lock, or the acks lock, while   *)
(* the user's handler or continuation runs; the user's thread t2 calls on  *)
(* and emit_ack.  A step takes the lock the thread is at, when it is free. *)
(***************************************************************************)

\* What the user's closures do: h_on calls on(..) on the socket it is a
\* handler of and returns no values, k_emit calls emit_ack(..) on the
\* socket it is a continuation of; the others only return.
CallsOn(f) == f = "h_on"
CallsEmitAck(f) == f = "k_emit"

CallbacksWriteFree(c) ==
    callbacks_lock[c].writer = "none" /\ callbacks_lock[c].readers = {}
CallbacksReadFree(c) == callbacks_lock[c].writer = "none"
AcksFree(c) == acks_lock[c] = "none"

ReenterFrames ==
    {Bytes(<<"2", "[", "\"", "e", "\"", "]">>),
     Bytes(<<"2", "1", "[", "\"", "e", "\"", ",", "5", "]">>),
     Bytes(<<"3", "0", "[", "2", "]">>),
     Bytes(<<"3", "1", "[", "2", "]">>)}

\* on(event, f) is called by the user's thread.
CallOn(t, c, event, f) ==
    /\ tpc[t] = "idle"
    /\ Contains(clients, c)
    /\ tpc' = [tpc EXCEPT ![t] = "on_write"]
    /\ targ' = [targ EXCEPT ![t] = [c |-> c, event |-> event, nf |-> f, ret |-> "idle"]]
    /\ SetWorld(Begin)
    /\ UNCHANGED <<rooms_lock, joined_lock, codecVars, leafVars>>

\* on: self.callbacks.write() and the insertion; then on returns, to the
\* user's thread or into the handler that called it.
OnWrite(t) ==
    LET l == targ[t]
    IN /\ tpc[t] = "on_write"
       /\ CallbacksWriteFree(l.c)
       /\ SetWorld(on(World, l.c, l.event, l.nf))
       /\ IF l.ret = "idle"
          THEN Return(t)
          ELSE /\ tpc' = [tpc EXCEPT ![t] = "handler_ret"]
               /\ UNCHANGED targ
       /\ UNCHANGED <<rooms_lock, joined_lock, codecVars, leafVars>>

\* emit_ack(event, None, on_ack) is called by the user's thread: the id is
\* allocated.
CallEmitAckLocked(t, c, on_ack) ==
    LET a == new_ack_id(Begin, c)
    IN /\ tpc[t] = "idle"
       /\ Contains(clients, c)
       /\ last_ack_id[c] < MaxAcks
       /\ SetWorld(a.w)
       /\ tpc' = [tpc EXCEPT ![t] = "acks_lock"]
       /\ targ' = [targ EXCEPT ![t] =
                      [c |-> c, on_ack |-> on_ack, ack_id |-> a.id, ret |-> "idle"]]
       /\ UNCHANGED <<rooms_lock, joined_lock, codecVars, leafVars>>

\* emit_ack: self.acks.lock(), the insertion, and the sends that follow;
\* then emit_ack returns, to the user's thread or into the continuation
\* that called it.
AcksLock(t) ==
    LET l == targ[t]
        w1 == [World EXCEPT !.acks[l.c] = MapInsert(@, l.ack_id, l.on_ack)]
    IN /\ tpc[t] = "acks_lock"
       /\ AcksFree(l.c)
       /\ SetWorld(SendAll(w1, l.c,
                           emit_frames(namespace[l.c], Some(l.ack_id), EventE, None), 1))
       /\ IF l.ret = "idle"
          THEN Return(t)
          ELSE /\ tpc' = [tpc EXCEPT ![t] = "continuation_ret"]
               /\ UNCHANGED targ
       /\ UNCHANGED <<rooms_lock, joined_lock, codecVars, leafVars>>

\* The on_message closure with an event: fire_callback takes
\* callbacks.read() and, if a handler is registered, calls it with the
\* guard alive.
DeliverEvent(t, c, bytes) ==
    LET packet == from_bytes(bytes).val
        w0 == [Begin EXCEPT !.received[c] = Append(@, bytes)]
        r == fire_callback(w0, c, packet)
        found == to_string(packet.data.val.a[1]) \in DOMAIN callbacks[c]
    IN /\ tpc[t] = "idle"
       /\ c \in constructed
       /\ Len(received[c]) < MaxFrames
       /\ ~cur_packet[c].some
       /\ from_bytes(bytes).tag = "Ok" /\ packet.opcode = "Event"
       /\ CallbacksReadFree(c)
       /\ IF found
          THEN /\ SetWorld(r.w)
               /\ callbacks_lock' = [callbacks_lock EXCEPT ![c].readers = @ \cup {t}]
               /\ tpc' = [tpc EXCEPT ![t] = "handler"]
               /\ targ' = [targ EXCEPT ![t] =
                              [c |-> c, packet |-> packet, f |-> callbacks[c][
                                   to_string(packet.data.val.a[1])], ret |-> "handler",
                               event |-> Bytes(<<"x">>), nf |-> "h_json"]]
          ELSE /\ SetWorld(Reply(w0, c, packet, None))
               /\ UNCHANGED <<tpc, targ, callbacks_lock>>
       /\ UNCHANGED <<rooms_lock, joined_lock, codecVars, acks_lock>>

\* The handler calls so.on(..) on its own socket.
HandlerCallsOn(t) ==
    /\ tpc[t] = "handler"
    /\ CallsOn(targ[t].f)
    /\ tpc' = [tpc EXCEPT ![t] = "on_write"]
    /\ SetWorld(World)
    /\ UNCHANGED <<targ, rooms_lock, joined_lock, codecVars, leafVars>>

\* The handler returns: the read guard is dropped and the reply sent.
HandlerReturns(t) ==
    LET l == targ[t]
    IN /\ tpc[t] \in {"handler", "handler_ret"}
       /\ tpc[t] = "handler" => ~CallsOn(l.f)
       /\ callbacks_lock' = [callbacks_lock EXCEPT ![l.c].readers = @ \ {t}]
       /\ SetWorld(Reply(World, l.c, l.packet, Some(HandlerReturn(l.f))))
       /\ Return(t)
       /\ UNCHANGED <<rooms_lock, joined_lock, codecVars, acks_lock>>

\* The on_message closure with an ack: fire_ack takes acks.lock(), removes
\* the continuation and calls it with the guard alive.
DeliverAck(t, c, bytes) ==
    LET packet == from_bytes(bytes).val
        w0 == [Begin EXCEPT !.received[c] = Append(@, bytes)]
    IN /\ tpc[t] = "idle"
       /\ c \in constructed
       /\ Len(received[c]) < MaxFrames
       /\ ~cur_packet[c].some
       /\ from_bytes(bytes).tag = "Ok" /\ packet.opcode = "Ack"
       /\ AcksFree(c)
       /\ SetWorld(fire_ack(w0, c, packet))
       /\ IF packet.id.val \in DOMAIN acks[c]
          THEN /\ acks_lock' = [acks_lock EXCEPT ![c] = t]
               /\ tpc' = [tpc EXCEPT ![t] = "continuation"]
               /\ targ' = [targ EXCEPT ![t] =
                              [c |-> c, packet |-> packet, f |-> acks[c][packet.id.val],
                               ret |-> "continuation", on_ack |-> "k1", ack_id |-> 0]]
          ELSE UNCHANGED <<tpc, targ, acks_lock>>
       /\ UNCHANGED <<rooms_lock, joined_lock, codecVars, callbacks_lock>>

\* The continuation calls so.emit_ack(..) on its own socket: the id is
\* allocated.
ContinuationCallsEmitAck(t) ==
    LET a == new_ack_id(World, targ[t].c)
    IN /\ tpc[t] = "continuation"
       /\ CallsEmitAck(targ[t].f)
       /\ SetWorld(a.w)
       /\ tpc' = [tpc EXCEPT ![t] = "acks_lock"]
       /\ targ' = [targ EXCEPT ![t].ack_id = a.id]
       /\ UNCHANGED <<rooms_lock, joined_lock, codecVars, leafVars>>

\* The continuation returns: the acks guard is dropped.
ContinuationReturns(t) ==
    /\ tpc[t] \in {"continuation", "continuation_ret"}
    /\ tpc[t] = "continuation" => ~CallsEmitAck(targ[t].f)
    /\ acks_lock' = [acks_lock EXCEPT ![targ[t].c] = "none"]
    /\ SetWorld(World)
    /\ Return(t)
    /\ UNCHANGED <<rooms_lock, joined_lock, codecVars, callbacks_lock>>

ReenterNext ==
    \/ Connect("c1")
    \/ \E f \in {"h_json", "h_on"} : CallOn("t2", "c1", to_string(EventE), f)
    \/ \E t \in Threads : OnWrite(t)
    \/ \E k \in {"k1", "k_emit"} : CallEmitAckLocked("t2", "c1", k)
    \/ \E t \in Threads : AcksLock(t)
    \/ \E bytes \in ReenterFrames : DeliverEvent("t1", "c1", bytes)
    \/ HandlerCallsOn("t1")
    \/ HandlerReturns("t1")
    \/ \E bytes \in ReenterFrames : DeliverAck("t1", "c1", bytes)
    \/ ContinuationCallsEmitAck("t1")
    \/ ContinuationReturns("t1")

SpecReenter == Init /\ [][ReenterNext]_vars

\* C23: no thread waits for a lock that it holds itself: a handler that
\* calls on(..) and a continuation that calls emit_ack(..) on their own
\* socket get the lock and return.
C23_NoSelfWait ==
    \A t \in Threads :
        /\ tpc[t] = "on_write" => t \notin callbacks_lock[targ[t].c].readers
        /\ tpc[t] = "acks_lock" => acks_lock[targ[t].c] # t

(***************************************************************************)
(* Properties of the registry                                              *)
(***************************************************************************)

\* Whether socket c is listed in room r of the map rooms.
InRoom(rooms, c, r) == r \in DOMAIN rooms /\ Contains(rooms[r], c)

\* C5: every room a connected socket has joined lists the socket.
C5_JoinedImpliesMember ==
    \A c \in Sockets :
        Contains(clients, c) =>
            \A k \in DOMAIN rooms_joined[c] : InRoom(server_rooms, c, rooms_joined[c][k])

\* C6: every socket a room lists has joined the room, or the room is the
\* socket's own.
C6_MemberImpliesJoined ==
    \A r \in DOMAIN server_rooms :
        \A k \in DOMAIN server_rooms[r] :
            LET c == server_rooms[r][k] IN r = c \/ Contains(rooms_joined[c], r)

\* Both sockets joined room r and c2 joined the room named c1; c1 was then
\* closed and is gone from r, which still lists c2.
C6_Witness ==
    /\ "c1" \in closed
    /\ InRoom(server_rooms, "c2", "r")
    /\ ~InRoom(server_rooms, "c1", "r")
    /\ Contains(rooms_joined["c1"], "r")
    /\ InRoom(server_rooms, "c2", "c1")

\* C7: a socket that was closed, by close(), by a Disconnect packet or by
\* the transport, is in no room and not among the clients, and a broadcast
\* sends it nothing.
C7_ClosedIsUnlisted ==
    /\ [](\A c \in closed :
            /\ ~Contains(clients, c)
            /\ \A r \in DOMAIN server_rooms : ~Contains(server_rooms[r], c))
    /\ [][\A c \in closed : sent'[c] = sent[c]]_vars

\* C8: for a connected socket c and a room r, join(r) then leave(r) leaves
\* c in rooms[r] and r in c's rooms_joined exactly if they were before,
\* and a further join(r) makes c a member of rooms[r].
C8_JoinLeave ==
    \A c \in Sockets, r \in RoomNames :
        Contains(clients, c) =>
            LET w1 == join(Begin, c, r)
                w2 == leave(w1, c, r)
                w3 == join(w2, c, r)
            IN /\ InRoom(w2.server_rooms, c, r) = InRoom(server_rooms, c, r)
               /\ Contains(w2.rooms_joined[c], r) = Contains(rooms_joined[c], r)
               /\ InRoom(w3.server_rooms, c, r)

\* C9: no room lists a socket twice.
C9_MembersOnce ==
    \A r \in DOMAIN server_rooms :
        \A j, k \in DOMAIN server_rooms[r] :
            server_rooms[r][j] = server_rooms[r][k] => j = k

\* C21: close() on a connected socket c does not abort, and every other
\* socket is in a room after the call exactly if it was before; so too
\* when the server closes all its sockets.
C21_CloseRemovesOnlySelf ==
    /\ \A c \in Sockets :
           Contains(clients, c) =>
               LET w == close(Begin, c) IN
               /\ ~w.panicked
               /\ \A d \in Sockets \ {c}, r \in DOMAIN server_rooms \cup DOMAIN w.server_rooms :
                      InRoom(w.server_rooms, d, r) = InRoom(server_rooms, d, r)
    /\ ~server_close(Begin).panicked


====
